---- MODULE Spec2Model ----
(***************************************************************************)
(* Exploration state engine of the crawler:                                *)
(*   - SiteMap (src/src/core/site_mapper.py): screens, transitions,        *)
(*     exploration queue, coverage statistics, snapshot (de)serialisation. *)
(*   - NavigationEngine (src/src/core/navigation_engine.py): the session   *)
(*     state machine driven by run_session / execute_step.                 *)
(*   - BruteForceEngine (src/src/core/brute_force_engine.py): the          *)
(*     exploration cycle (run_exploration) and its wrapper run_continuous. *)
(*   - GeminiVisionNavigator.get_next_action (src/src/ai/                  *)
(*     vision_navigator.py): the action oracle's retries.                  *)
(***************************************************************************)
EXTENDS Integers, Sequences, FiniteSets, TLC

VARIABLES
    site_map,         \* the SiteMap object: screens, screen_keys, transitions, exploration_queue
    clock,            \* number of datetime.now() readings taken so far by the SiteMap
    last,             \* the last SiteMap call: [op, args, ret]
    session,          \* NavigationEngine.current_session (a NavigationSession, or no session)
    pc,               \* where run_session is: "idle", "start", "loop", "returned"
    run_args,         \* the arguments of run_session: [max_steps, max_errors]
    should_continue,  \* what the last execute_step returned to run_session
    step_env,         \* what the collaborators did during the last execute_step
    status,           \* the dashboard's status file: [running]
    oracle,           \* a get_next_action call: the responses it gets and the action it returns
    invocation,       \* a call of one of the stateless helpers: [op, args, ret]
    engine,           \* BruteForceEngine: _running, _stop_requested and the stats it counts
    bf_pc,            \* where run_continuous / run_exploration is
    bf_args,          \* how the engine is run: [mode, max_screens, resume]
    app,              \* the application under test: what its screens show and what clicks do
    browser,          \* the fingerprint of the screen the browser page shows
    disk,             \* the snapshot file sitemap.json
    interactions,     \* BruteForceLogger.interactions of the current run
    cycle,            \* the current (or last) exploration cycle: [number, ending, saved]
    stops             \* how many stop requests (stop() calls, signals) were made

mapVars == <<site_map, clock, last>>

navVars == <<session, pc, run_args, should_continue, step_env>>

bfVars == <<engine, bf_pc, bf_args, app, browser, disk, interactions, cycle, stops>>

vars == <<site_map, clock, last, session, pc, run_args, should_continue, step_env, status, oracle, invocation, engine, bf_pc, bf_args, app, browser, disk, interactions, cycle, stops>>

(***************************************************************************)
(* Bounds of the model.                                                    *)
(***************************************************************************)
MaxTransitions == 2
MaxSteps == 4
MaxErrors == 2
MaxElements == 3
MaxScreens == 3
MaxTests == 4
MaxCycles == 2
MaxStops == 1
MaxClock == 4
MaxNew == 2
MaxExisting == 2

\* Screen fingerprints (stand-ins for the 64 hex digit hashes).
Fingerprints == {1, 2}

\* Python's None, as a return value where a fingerprint is expected.
None == 0

\* What a click is recorded as: the label clicked and what came of it.
Clicks == { [element_label |-> "A", result |-> "navigated"], [element_label |-> "B", result |-> "no_change"] }

\* The destination recorded with a result: another screen when the click navigated.
Destinations(from_fingerprint, result) == IF result = "navigated" THEN Fingerprints \ {from_fingerprint} ELSE {from_fingerprint}

(***************************************************************************)
(* Python values whose conversion matters for the snapshot format.         *)
(***************************************************************************)
PyTuple(items) == [py |-> "tuple", items |-> items]

PyList(items) == [py |-> "list", items |-> items]

\* datetime.now(): the k-th reading of a clock that advances half a second
\* per reading, so that readings with and without microseconds both occur.
Now(k) == [sec |-> k \div 2, usec |-> (k % 2) * 500000]

\* InteractiveElement as left by discover_elements (center already computed).
Element(label, box, cx, cy) == [label |-> label, element_type |-> "button", bounding_box |-> PyList(box), priority |-> "medium", center |-> PyTuple(<<cx, cy>>), tested |-> FALSE]

ElemA == Element("A", <<0, 0, 100, 100>>, 19, 42)

ElemB == Element("B", <<200, 0, 300, 100>>, 19, 211)

\* a second element carrying the label "A" (labels are not unique on a screen)
ElemA2 == Element("A", <<500, 0, 600, 100>>, 19, 464)

\* What captures hand to add_screen: screenshot path, url, discovered elements.
CaptureAB == [screenshot_path |-> "bf_1.png", url |-> "/", elements |-> <<ElemA, ElemB>>]

CaptureAA == [screenshot_path |-> "bf_2.png", url |-> "/trade", elements |-> <<ElemA, ElemA2>>]

CaptureNone == [screenshot_path |-> "bf_3.png", url |-> "/help", elements |-> <<>>]

\* The captures that can come with a fingerprint (element discovery is a model
\* call whose answer varies from one call to the next).
Captures(fingerprint) == IF fingerprint = 1 THEN {CaptureAB, CaptureAA} ELSE {CaptureAA, CaptureNone}

(***************************************************************************)
(* Screen                                                                  *)
(***************************************************************************)
RECURSIVE FilterUntested(_, _)
FilterUntested(elements, tested) ==
    IF elements = <<>> THEN <<>>
    ELSE IF Head(elements).label \notin tested
         THEN <<Head(elements)>> \o FilterUntested(Tail(elements), tested)
         ELSE FilterUntested(Tail(elements), tested)

\* Screen.get_untested_elements
Screen_get_untested_elements(screen) == FilterUntested(screen.elements, screen.tested_elements)

\* mark_element_tested as an assignment instead of set.add
mark_element_tested_assigning(screen, element_label) == [screen EXCEPT !.tested_elements = {element_label}]

\* Screen.mark_element_tested
mark_element_tested(screen, element_label) == [screen EXCEPT !.tested_elements = @ \cup {element_label}]

(***************************************************************************)
(* SiteMap                                                                 *)
(***************************************************************************)
\* SiteMap.__init__
EmptySiteMap == [screens |-> <<>>, screen_keys |-> <<>>, transitions |-> <<>>, exploration_queue |-> <<>>]

is_screen_known(m, fingerprint) == fingerprint \in DOMAIN m.screens

\* create_screen that does not put the new screen in the exploration queue
create_screen_unqueued(m, now, fingerprint, screenshot_path, url, elements) ==
    LET screen == [fingerprint |-> fingerprint, url |-> url, screenshot_path |-> screenshot_path, elements |-> elements, tested_elements |-> {}, discovered_at |-> now, has_issues |-> FALSE]
    IN [map |-> [m EXCEPT !.screens = (fingerprint :> screen) @@ @, !.screen_keys = Append(@, fingerprint)],
        ret |-> screen]

\* the "Create new screen" part of add_screen: [map, ret]
create_screen(m, now, fingerprint, screenshot_path, url, elements) ==
    LET screen == [fingerprint |-> fingerprint, url |-> url, screenshot_path |-> screenshot_path, elements |-> elements, tested_elements |-> {}, discovered_at |-> now, has_issues |-> FALSE]
    IN [map |-> [m EXCEPT !.screens = (fingerprint :> screen) @@ @, !.screen_keys = Append(@, fingerprint), !.exploration_queue = Append(@, fingerprint)],
        ret |-> screen]

\* add_screen that does update an existing screen with what the call brings
add_screen_updating(m, now, fingerprint, screenshot_path, url, elements) ==
    IF fingerprint \in DOMAIN m.screens
    THEN LET screen == [m.screens[fingerprint] EXCEPT !.url = url, !.screenshot_path = screenshot_path, !.elements = elements]
         IN [map |-> [m EXCEPT !.screens[fingerprint] = screen, !.exploration_queue = Append(@, fingerprint)], ret |-> screen]
    ELSE create_screen(m, now, fingerprint, screenshot_path, url, elements)

\* SiteMap.add_screen: [map, ret]
add_screen(m, now, fingerprint, screenshot_path, url, elements) ==
    IF fingerprint \in DOMAIN m.screens
    THEN [map |-> m, ret |-> m.screens[fingerprint]]
    ELSE create_screen(m, now, fingerprint, screenshot_path, url, elements)

\* add_transition that marks the label on the destination screen
add_transition_marking_destination(m, now, from_fingerprint, element_label, to_fingerprint, result) ==
    LET transition == [from_screen |-> from_fingerprint, element_label |-> element_label, to_screen |-> to_fingerprint, result |-> result, timestamp |-> now]
        appended == [m EXCEPT !.transitions = Append(@, transition)]
    IN [map |-> IF to_fingerprint \in DOMAIN m.screens
                THEN [appended EXCEPT !.screens[to_fingerprint] = mark_element_tested(@, element_label)]
                ELSE appended,
        ret |-> transition]

\* SiteMap.add_transition: [map, ret]
add_transition(m, now, from_fingerprint, element_label, to_fingerprint, result) ==
    LET transition == [from_screen |-> from_fingerprint, element_label |-> element_label, to_screen |-> to_fingerprint, result |-> result, timestamp |-> now]
        appended == [m EXCEPT !.transitions = Append(@, transition)]
    IN [map |-> IF from_fingerprint \in DOMAIN m.screens
                THEN [appended EXCEPT !.screens[from_fingerprint] = mark_element_tested(@, element_label)]
                ELSE appended,
        ret |-> transition]

\* SiteMap.get_untested_elements
get_untested_elements(m, fingerprint) ==
    IF fingerprint \notin DOMAIN m.screens THEN <<>>
    ELSE Screen_get_untested_elements(m.screens[fingerprint])

\* the while loop stopping at the first known screen, tested or not
RECURSIVE evict_queue_unchecked(_, _)
evict_queue_unchecked(m, queue) ==
    IF queue = <<>> THEN queue
    ELSE IF Head(queue) \in DOMAIN m.screens
         THEN queue
         ELSE evict_queue_unchecked(m, Tail(queue))

\* the while loop of get_next_screen_to_explore: the queue it leaves
RECURSIVE evict_queue(_, _)
evict_queue(m, queue) ==
    IF queue = <<>> THEN queue
    ELSE IF Head(queue) \in DOMAIN m.screens /\ get_untested_elements(m, Head(queue)) # <<>>
         THEN queue
         ELSE evict_queue(m, Tail(queue))

\* the for loop of get_next_screen_to_explore over screens.items()
RECURSIVE scan_screens(_, _)
scan_screens(m, keys) ==
    IF keys = <<>> THEN None
    ELSE IF Screen_get_untested_elements(m.screens[Head(keys)]) # <<>>
         THEN Head(keys)
         ELSE scan_screens(m, Tail(keys))

\* SiteMap.get_next_screen_to_explore: [map, ret]
get_next_screen_to_explore(m) ==
    LET queue == evict_queue(m, m.exploration_queue)
        evicted == [m EXCEPT !.exploration_queue = queue]
    IN IF queue # <<>>
       THEN [map |-> evicted, ret |-> Head(queue)]
       ELSE [map |-> evicted, ret |-> scan_screens(evicted, evicted.screen_keys)]

\* SiteMap.mark_screen_has_issues
mark_screen_has_issues(m, fingerprint) ==
    IF fingerprint \in DOMAIN m.screens
    THEN [m EXCEPT !.screens[fingerprint].has_issues = TRUE]
    ELSE m

\* Python's round(x, 1) of the quotient 100 * tested / total, in tenths of a
\* percent (round half to even; 333 stands for 33.3).
round1(tested, total) ==
    LET q == (1000 * tested) \div total
        r == (1000 * tested) % total
    IN IF 2 * r < total THEN q
       ELSE IF 2 * r > total THEN q + 1
       ELSE IF q % 2 = 0 THEN q ELSE q + 1

\* sum(...) over a list of numbers
RECURSIVE Sum(_)
Sum(numbers) == IF numbers = <<>> THEN 0 ELSE Head(numbers) + Sum(Tail(numbers))

\* the screens in screens.values() order
screen_values(m) == [i \in DOMAIN m.screen_keys |-> m.screens[m.screen_keys[i]]]

\* total_elements > 0 ? tested / total * 100 : 0, rounded to one decimal
\* the percentage cut to one decimal place instead of rounded
coverage_pct_truncated(tested_elements, total_elements) == IF total_elements > 0 THEN (1000 * tested_elements) \div total_elements ELSE 0

coverage_pct(tested_elements, total_elements) == IF total_elements > 0 THEN round1(tested_elements, total_elements) ELSE 0

\* SiteMap.get_coverage_stats (coverage_percent in tenths of a percent)
get_coverage_stats(m) ==
    LET values == screen_values(m)
        total_elements == Sum([i \in DOMAIN values |-> Len(values[i].elements)])
        tested_elements == Sum([i \in DOMAIN values |-> Cardinality(values[i].tested_elements)])
    IN [screens_discovered |-> Len(m.screen_keys),
        total_elements |-> total_elements,
        tested_elements |-> tested_elements,
        coverage_percent |-> coverage_pct(tested_elements, total_elements),
        transitions_recorded |-> Len(m.transitions),
        screens_with_issues |-> Sum([i \in DOMAIN values |-> IF values[i].has_issues THEN 1 ELSE 0]),
        screens_fully_tested |-> Sum([i \in DOMAIN values |-> IF Cardinality(values[i].tested_elements) = Len(values[i].elements) /\ Len(values[i].elements) > 0 THEN 1 ELSE 0])]

(***************************************************************************)
(* Snapshot format: to_dict / from_dict, save_to_disk / load_from_disk     *)
(***************************************************************************)
\* isoformat(timespec="seconds"): the microseconds are dropped
isoformat_seconds(t) == <<t.sec>>

\* datetime.isoformat(): "...:SS" when microsecond is 0, "...:SS.ffffff" otherwise
isoformat(t) == IF t.usec = 0 THEN <<t.sec>> ELSE <<t.sec, t.usec>>

\* datetime.fromisoformat()
fromisoformat(text) == IF Len(text) = 1 THEN [sec |-> text[1], usec |-> 0] ELSE [sec |-> text[1], usec |-> text[2]]

\* list(a_set): the members in some order
RECURSIVE list_of_set(_)
list_of_set(set) ==
    IF set = {} THEN <<>>
    ELSE LET x == CHOOSE x \in set : TRUE IN <<x>> \o list_of_set(set \ {x})

\* set(a_list)
set_of_list(list) == { list[i] : i \in DOMAIN list }

\* InteractiveElement.to_dict
Element_to_dict(e) == [label |-> e.label, element_type |-> e.element_type, bounding_box |-> e.bounding_box, priority |-> e.priority, center |-> PyList(e.center.items), tested |-> e.tested]

\* InteractiveElement.from_dict
Element_from_dict(data) == [label |-> data.label, element_type |-> data.element_type, bounding_box |-> data.bounding_box, priority |-> data.priority, center |-> PyTuple(data.center.items), tested |-> data.tested]

\* Screen.to_dict
Screen_to_dict(s) == [fingerprint |-> s.fingerprint, url |-> s.url, screenshot_path |-> s.screenshot_path, elements |-> [i \in DOMAIN s.elements |-> Element_to_dict(s.elements[i])], tested_elements |-> list_of_set(s.tested_elements), discovered_at |-> isoformat(s.discovered_at), has_issues |-> s.has_issues]

\* Screen.from_dict
Screen_from_dict(data) == [fingerprint |-> data.fingerprint, url |-> data.url, screenshot_path |-> data.screenshot_path, elements |-> [i \in DOMAIN data.elements |-> Element_from_dict(data.elements[i])], tested_elements |-> set_of_list(data.tested_elements), discovered_at |-> fromisoformat(data.discovered_at), has_issues |-> data.has_issues]

\* Transition.to_dict
Transition_to_dict(t) == [from_screen |-> t.from_screen, element_label |-> t.element_label, to_screen |-> t.to_screen, result |-> t.result, timestamp |-> isoformat(t.timestamp)]

\* Transition.from_dict
Transition_from_dict(data) == [from_screen |-> data.from_screen, element_label |-> data.element_label, to_screen |-> data.to_screen, result |-> data.result, timestamp |-> fromisoformat(data.timestamp)]

\* SiteMap.save_to_disk: the document written to the snapshot file
save_to_disk(m, now) ==
    [version |-> "1.0",
     saved_at |-> isoformat(now),
     screens |-> [keys |-> m.screen_keys, items |-> [fp \in DOMAIN m.screens |-> Screen_to_dict(m.screens[fp])]],
     transitions |-> [i \in DOMAIN m.transitions |-> Transition_to_dict(m.transitions[i])],
     exploration_queue |-> m.exploration_queue]

\* the snapshot file when it does not exist
NoFile == [version |-> "none"]

\* the members of the document in the order json.dump writes them
Members == <<"version", "saved_at", "screens", "transitions", "exploration_queue">>

\* the snapshot file while json.dump is writing data into it: open(filepath,
\* "w") has emptied it and the first n members have been written so far
Partial(data, n) == [version |-> "partial", members |-> [i \in 1..n |-> <<Members[i], data[Members[i]]>>]]

\* json.load(f) returns (a file that stops before the closing brace makes it
\* raise JSONDecodeError)
json_load_ok(file) == file.version # "partial"

\* a snapshot file that is valid JSON and holds the sections of data, but
\* with an entry in the section named on which from_dict raises (a screen
\* without "fingerprint", a transition without "timestamp")
Damaged(data, section) == [version |-> "damaged", section |-> section, data |-> data]

\* SiteMap.load_from_disk: [map, ret].  The screens are assigned before the
\* transitions are converted, the transitions before the queue is read.
load_from_disk(m, file) ==
    IF file = NoFile
    THEN [map |-> m, ret |-> FALSE]
    ELSE IF ~ json_load_ok(file)
    THEN [map |-> m, ret |-> FALSE]
    ELSE IF file.version = "damaged"
    THEN IF file.section = "screens"
         THEN [map |-> m, ret |-> FALSE]
         ELSE [map |-> [m EXCEPT !.screens = [fp \in DOMAIN file.data.screens.items |-> Screen_from_dict(file.data.screens.items[fp])],
                                 !.screen_keys = file.data.screens.keys],
               ret |-> FALSE]
    ELSE [map |-> [screens |-> [fp \in DOMAIN file.screens.items |-> Screen_from_dict(file.screens.items[fp])],
                   screen_keys |-> file.screens.keys,
                   transitions |-> [i \in DOMAIN file.transitions |-> Transition_from_dict(file.transitions[i])],
                   exploration_queue |-> file.exploration_queue],
          ret |-> TRUE]

(***************************************************************************)
(* NavigationEngine: the session state machine                             *)
(***************************************************************************)
\* NavigationSession.max_stuck_retries (dataclass default; start_session never sets it)
max_stuck_retries == 3

\* Python's None where a string is expected
PyNone == "<None>"

\* NavigationEngine.current_session before start_session
NoSession == [state |-> "none"]

\* NavigationSession(session_id, url, objective, max_errors)
NavigationSession(max_errors) == [state |-> "initialized", step_count |-> 0, error_count |-> 0, stuck_count |-> 0, max_errors |-> max_errors, max_stuck_retries |-> max_stuck_retries, actions_taken |-> <<>>, screenshots |-> <<>>, state_transitions |-> <<>>, completion_reason |-> PyNone, issues_detected |-> <<>>, end_time |-> PyNone]

\* _transition_state that leaves the recovery from stuck out of the trace
transition_state_unrecorded(s, new_state, reason) ==
    IF s.state = "stuck" /\ new_state = "navigating"
    THEN [s EXCEPT !.state = new_state]
    ELSE [s EXCEPT !.state = new_state, !.state_transitions = Append(@, [from |-> s.state, to |-> new_state, timestamp |-> Now(Len(s.state_transitions)), step |-> s.step_count, reason |-> reason])]

\* NavigationEngine._transition_state
transition_state(s, new_state, reason) == [s EXCEPT !.state = new_state, !.state_transitions = Append(@, [from |-> s.state, to |-> new_state, timestamp |-> Now(Len(s.state_transitions)), step |-> s.step_count, reason |-> reason])]

\* NavigationEngine.start_session
start_session(max_errors) == transition_state(NavigationSession(max_errors), "navigating", "Session started")

\* NavigationEngine._execute_action: whether the action counts as executed
\* (executor_ok: the executor neither raised nor reported failure)
execute_action(action_type, executor_ok) ==
    IF action_type \in {"click", "tap", "type", "press_key", "scroll", "go_back"} THEN executor_ok
    ELSE IF action_type \in {"wait", "done"} THEN TRUE
    ELSE FALSE

\* the "done" branch that honours the decision only while no error was counted
step_done_unless_errors(s, action) ==
    IF s.error_count > 0
    THEN [session |-> s, ret |-> TRUE]
    ELSE [session |-> [transition_state(s, "completed", "Objective completed: " \o action.reasoning) EXCEPT !.completion_reason = action.reasoning], ret |-> FALSE]

\* execute_step, the "done" branch: [session, ret]
step_done(s, action) ==
    [session |-> [transition_state(s, "completed", "Objective completed: " \o action.reasoning) EXCEPT !.completion_reason = action.reasoning], ret |-> FALSE]

\* the stuck test with > for >=
stuck_exhausted_late(s) == s.stuck_count > s.max_stuck_retries

\* the stuck test of execute_step
stuck_exhausted(s) == s.stuck_count >= s.max_stuck_retries

\* execute_step, the "stuck" branch: [session, ret]
step_stuck(s, action) ==
    LET counted == [s EXCEPT !.stuck_count = @ + 1]
    IN IF stuck_exhausted(counted)
       THEN [session |-> [transition_state(counted, "stuck", "Agent stuck after " \o ToString(counted.max_stuck_retries) \o " retries: " \o action.reasoning) EXCEPT !.completion_reason = "Stuck: " \o action.reasoning], ret |-> FALSE]
       ELSE [session |-> transition_state(counted, "stuck", "Stuck retry " \o ToString(counted.stuck_count)), ret |-> TRUE]

\* the error-budget test with > for >=
errors_exhausted_late(s) == s.error_count > s.max_errors

\* the error-budget test of execute_step
errors_exhausted(s) == s.error_count >= s.max_errors

\* execute_step, the "if not success" branch: [session, ret]
step_action_failed(s, action) ==
    LET counted == [s EXCEPT !.error_count = @ + 1]
        issue == [step_number |-> counted.step_count, navigation_state |-> counted.state, error_count |-> counted.error_count, action_type |-> action.action_type]
        detected == [counted EXCEPT !.issues_detected = Append(@, issue)]
    IN IF errors_exhausted(detected)
       THEN [session |-> transition_state(detected, "error", "Exceeded error tolerance (" \o ToString(detected.max_errors) \o ")"), ret |-> FALSE]
       ELSE [session |-> transition_state(detected, "stuck", "Action failed"), ret |-> TRUE]

\* the success path that recovers from stuck without resetting stuck_count
step_action_succeeded_keeping_count(s) ==
    LET recovered == IF s.state = "stuck" THEN transition_state(s, "navigating", "Recovered") ELSE s
    IN [session |-> recovered, ret |-> TRUE]

\* execute_step after a successful action: [session, ret]
step_action_succeeded(s) ==
    LET recovered == IF s.state = "stuck" THEN transition_state(s, "navigating", "Recovered") ELSE s
    IN [session |-> [recovered EXCEPT !.stuck_count = 0], ret |-> TRUE]

\* execute_step, the "except Exception" handler: [session, ret]
step_exception(s, e) ==
    LET counted == [s EXCEPT !.error_count = @ + 1]
    IN IF errors_exhausted(counted)
       THEN [session |-> transition_state(counted, "error", "Exception: " \o e), ret |-> FALSE]
       ELSE [session |-> counted, ret |-> TRUE]

\* the states in which execute_step goes on to take a step
step_allowed(s) == s.state \in {"navigating", "stuck"}

\* NavigationEngine.execute_step: [session, ret].  env is what the
\* collaborators do during the step: page ("alive", "recovered": reconnected,
\* "lost": reconnecting failed), capture_raises (the screenshot or the prompt
\* history raises), action (the oracle's decision), executor_ok.
execute_step(s, env) ==
    IF ~ step_allowed(s) THEN [session |-> s, ret |-> FALSE]
    ELSE LET stepped == [s EXCEPT !.step_count = @ + 1]
         IN IF env.page = "lost"
            THEN [session |-> transition_state(stepped, "error", "Browser connection lost: " \o env.error), ret |-> FALSE]
            ELSE IF env.capture_raises
            THEN step_exception(stepped, env.error)
            ELSE LET decided == [stepped EXCEPT !.screenshots = Append(@, stepped.step_count), !.actions_taken = Append(@, env.action)]
                 IN IF env.action.action_type = "done" THEN step_done(decided, env.action)
                    ELSE IF env.action.action_type = "stuck" THEN step_stuck(decided, env.action)
                    ELSE IF ~ execute_action(env.action.action_type, env.executor_ok) THEN step_action_failed(decided, env.action)
                    ELSE step_action_succeeded(decided)

\* the while condition with <= for <
loop_condition_inclusive(s, max_steps) == s.step_count <= max_steps

\* the while condition of run_session
loop_condition(s, max_steps) == s.step_count < max_steps

\* run_session after its loop: the timeout check and the end time
finish_session(s, max_steps) ==
    LET checked == IF s.step_count >= max_steps /\ s.state = "navigating"
                   THEN transition_state(s, "timeout", "Reached max steps (" \o ToString(max_steps) \o ")")
                   ELSE s
    IN [checked EXCEPT !.end_time = "now"]

\* the oracle's decisions
ActionTypes == {"click", "wait", "done", "stuck"}

\* what the collaborators do during one step (fields a step does not read
\* are left at "wait" / TRUE)
Env(page, capture_raises, action_type, executor_ok) == [page |-> page, capture_raises |-> capture_raises, action |-> [action_type |-> action_type, reasoning |-> "seen"], executor_ok |-> executor_ok, error |-> "boom"]

StepEnvs ==
    {Env("lost", FALSE, "wait", TRUE)}
    \cup {Env(page, TRUE, "wait", TRUE) : page \in {"alive", "recovered"}}
    \cup {Env(page, FALSE, action_type, TRUE) : page \in {"alive", "recovered"}, action_type \in ActionTypes}
    \cup {Env(page, FALSE, "click", FALSE) : page \in {"alive", "recovered"}}

\* before the first step
NoEnv == Env("none", FALSE, "wait", TRUE)

(***************************************************************************)
(* BruteForceEngine: the application under test and the engine's steps     *)
(***************************************************************************)
\* an element with a label of its own: the i-th of a screen
NthElement(i) == Element("E" \o ToString(i), <<100 * i, 0, 100 * i + 50, 100>>, 19, 100 * i)

\* what a click on an element does: it raises, or the page then shows after_fp
Click(raises, after_fp) == [raises |-> raises, after_fp |-> after_fp]

\* a screen of the application: what a capture of it yields (screenshot,
\* url, discovered elements) and what a click on each element does
AppScreen(capture, clicks) == [capture |-> capture, clicks |-> clicks]

\* one screen whose n elements carry distinct labels; no click changes it
SingleScreenApp(n) == [start |-> 1, screens |-> (1 :> AppScreen([screenshot_path |-> "bf_1.png", url |-> "/", elements |-> [i \in 1..n |-> NthElement(i)]], [i \in 1..n |-> Click(FALSE, 1)]))]

\* "A" leads from the start screen to a second screen with elements of its own
TwoScreenApp == [start |-> 1, screens |-> (1 :> AppScreen(CaptureAB, <<Click(FALSE, 2), Click(FALSE, 1)>>)) @@ (2 :> AppScreen(CaptureAA, <<Click(FALSE, 2), Click(FALSE, 2)>>))]

\* "A" leads from the start screen to a screen without elements
LeafApp == [start |-> 1, screens |-> (1 :> AppScreen(CaptureAB, <<Click(FALSE, 2), Click(FALSE, 1)>>)) @@ (2 :> AppScreen(CaptureNone, <<>>))]

\* the click on "A" raises; "B" changes nothing
FaultyApp == [start |-> 1, screens |-> (1 :> AppScreen(CaptureAB, <<Click(TRUE, 1), Click(FALSE, 1)>>))]

\* one screen on which discovery reports the same button twice, under two
\* labels and with boxes that overlap with IoU 0.8; no click changes it
OverlappingApp == [start |-> 1, screens |-> (1 :> AppScreen([screenshot_path |-> "bf_1.png", url |-> "/", elements |-> <<Element("Log in", <<0, 0, 1000, 1000>>, 195, 422), Element("Login", <<0, 0, 1000, 800>>, 156, 422)>>], <<Click(FALSE, 1), Click(FALSE, 1)>>))]

\* BruteForceEngine.__init__: the flags and the stats
NewEngine == [running |-> FALSE, stop_requested |-> FALSE, run_number |-> 0, elements_tested |-> 0, errors_found |-> 0]

\* before the first cycle
NoCycle == [number |-> 0, ending |-> "none", saved |-> FALSE]

\* InteractionLog as log_interaction appends it
InteractionLog(screen_fp, element, result) == [screen_fingerprint |-> screen_fp, element_label |-> element.label, element_type |-> element.element_type, action |-> "click", result |-> result]

\* what page.mouse.click(x, y) does on the screen the page shows
click_outcome(a, screen_fp, element) ==
    LET shown == a.screens[screen_fp]
    IN shown.clicks[CHOOSE i \in DOMAIN shown.capture.elements : shown.capture.elements[i].center = element.center]

\* run_exploration lines 108-110: the flags are set for a new cycle
begin_exploration(e) == [e EXCEPT !.running = TRUE, !.stop_requested = FALSE]

\* BruteForceEngine.stop
stop(e) == [e EXCEPT !.stop_requested = TRUE, !.running = FALSE]

\* run_continuous's signal_handler
signal_handler(e) == [e EXCEPT !.stop_requested = TRUE]

\* the while condition of run_exploration and of run_continuous
keeps_running(e) == e.running /\ ~ e.stop_requested

\* the cycle testing the last untested element first
next_element_last(untested) == untested[Len(untested)]

\* which untested element the cycle tests next: untested[0]
next_element(untested) == untested[1]

\* _capture_current_screen when nothing raises: [map, clock, ret]
capture_current_screen(m, k, a, shown) ==
    IF is_screen_known(m, shown)
    THEN [map |-> m, clock |-> k, ret |-> shown]
    ELSE LET c == a.screens[shown].capture
         IN [map |-> add_screen(m, Now(k), shown, c.screenshot_path, c.url, c.elements).map, clock |-> k + 1, ret |-> shown]

\* _test_element, the except handler: the error is logged and counted, the
\* screen marked, the start url reloaded
test_element_failed(m, k, log, e, screen_fp, element) ==
    [map |-> mark_screen_has_issues(m, screen_fp), clock |-> k,
     interactions |-> Append(log, InteractionLog(screen_fp, element, "error")),
     engine |-> [e EXCEPT !.errors_found = @ + 1],
     browser |-> screen_fp, raised |-> FALSE]

\* the try block recording the transition without registering the new screen
test_element_recorded_unregistered(m, k, log, e, a, screen_fp, element, after_fp) ==
    IF after_fp # screen_fp
    THEN [map |-> add_transition(m, Now(k), screen_fp, element.label, after_fp, "navigated").map,
          clock |-> k + 1,
          interactions |-> Append(log, InteractionLog(screen_fp, element, "navigated")),
          engine |-> e, browser |-> screen_fp, raised |-> FALSE]
    ELSE [map |-> add_transition(m, Now(k), screen_fp, element.label, screen_fp, "no_change").map,
          clock |-> k + 1,
          interactions |-> Append(log, InteractionLog(screen_fp, element, "no_change")),
          engine |-> e, browser |-> screen_fp, raised |-> FALSE]

\* _test_element, the try block after the after-screenshot, when nothing in
\* it raises
test_element_recorded(m, k, log, e, a, screen_fp, element, after_fp) ==
    IF after_fp # screen_fp
    THEN LET recorded == add_transition(m, Now(k), screen_fp, element.label, after_fp, "navigated").map
             c == a.screens[after_fp].capture
             known == is_screen_known(recorded, after_fp)
         IN [map |-> IF known THEN recorded ELSE add_screen(recorded, Now(k + 1), after_fp, c.screenshot_path, c.url, c.elements).map,
             clock |-> IF known THEN k + 1 ELSE k + 2,
             interactions |-> Append(log, InteractionLog(screen_fp, element, "navigated")),
             engine |-> e, browser |-> screen_fp, raised |-> FALSE]
    ELSE [map |-> add_transition(m, Now(k), screen_fp, element.label, screen_fp, "no_change").map,
          clock |-> k + 1,
          interactions |-> Append(log, InteractionLog(screen_fp, element, "no_change")),
          engine |-> e, browser |-> screen_fp, raised |-> FALSE]

\* BruteForceEngine._test_element: [map, clock, interactions, engine,
\* browser, raised].  fault names the collaborator that raises during the
\* call, if any: "before_shot" (the screenshot taken before the try block),
\* "discover" (element discovery on a new screen), "log" (log_interaction,
\* which raises after appending to interactions, in the try block and again
\* in the except handler).
test_element(m, k, log, e, a, screen_fp, element, fault) ==
    LET unchanged == [map |-> m, clock |-> k, interactions |-> log, engine |-> e, browser |-> screen_fp, raised |-> TRUE]
        outcome == click_outcome(a, screen_fp, element)
    IN IF fault = "before_shot" THEN unchanged
       ELSE IF outcome.raises
       THEN IF fault = "log"
            THEN [unchanged EXCEPT !.interactions = Append(log, InteractionLog(screen_fp, element, "error"))]
            ELSE test_element_failed(m, k, log, e, screen_fp, element)
       ELSE IF outcome.after_fp # screen_fp /\ ~ is_screen_known(m, outcome.after_fp) /\ fault = "discover"
       THEN test_element_failed(add_transition(m, Now(k), screen_fp, element.label, outcome.after_fp, "navigated").map, k + 1, log, e, screen_fp, element)
       ELSE IF fault = "log"
       THEN LET done == test_element_recorded(m, k, log, e, a, screen_fp, element, outcome.after_fp)
            IN [done EXCEPT !.interactions = Append(@, InteractionLog(screen_fp, element, "error")), !.raised = TRUE]
       ELSE test_element_recorded(m, k, log, e, a, screen_fp, element, outcome.after_fp)

\* what the collaborators can do during one step of the cycle
Faults == {"none", "capture", "before_shot", "discover", "log", "navigate"}

\* the engine is not run
BruteIdle ==
    /\ engine = NewEngine
    /\ bf_pc = "idle"
    /\ bf_args = [mode |-> "none", max_screens |-> 0, resume |-> FALSE]
    /\ app = SingleScreenApp(0)
    /\ browser = None
    /\ disk = NoFile
    /\ interactions = <<>>
    /\ cycle = NoCycle
    /\ stops = 0

\* the Dashboard's status file as read_status returns it when there is none
NoStatus == [running |-> FALSE, step_count |-> 0]

\* write_status(running=..., step_count=...); a key that is not given is kept
write_status(st, running, step_count) == [running |-> running, step_count |-> step_count]

\* write_status(running=...)
write_status_running(st, running) == [st EXCEPT !.running = running]

\* write_status(step_count=...)
write_status_step_count(st, step_count) == [st EXCEPT !.step_count = step_count]

\* max_errors as run_navigation_session passes it to start_session
dashboard_max_errors == 3

\* the while condition of run_navigation_session
dashboard_condition(s, max_steps, st) == s.step_count < max_steps /\ st.running

\* no dashboard session is run
DashIdle == status = NoStatus

\* NavigationAction(action_type=..., reasoning=...)
NavigationAction(action_type, reasoning) == [action_type |-> action_type, reasoning |-> reasoning]

\* the oracle is not asked
NoOracleCall == [pc |-> "idle", responses |-> <<>>, attempts |-> 0, action |-> NavigationAction(PyNone, PyNone), raised |-> FALSE]

\* What one generate_content call gives: it raises, or it returns a text.
\* A text is a body, bare or inside a markdown fence; a body is the empty
\* string, white space, prose, a JSON object (with or without the key
\* action_type) or a JSON array.
Body(kind, action_type, reasoning) == [kind |-> kind, action_type |-> action_type, reasoning |-> reasoning]

Bodies ==
    {Body(kind, PyNone, PyNone) : kind \in {"empty", "blank", "prose", "array"}}
    \cup {Body("object", action_type, "r") : action_type \in {"click", "done", PyNone}}

Response(raises, fence, body) == [raises |-> raises, fence |-> fence, body |-> body]

Responses ==
    {Response(TRUE, "none", Body("empty", PyNone, PyNone))}
    \cup {Response(FALSE, "none", body) : body \in Bodies}
    \cup {Response(FALSE, "json", body) : body \in {Body("blank", PyNone, PyNone), Body("prose", PyNone, PyNone), Body("object", "click", "r")}}

\* not response_text or response_text.strip() == "" (of a call that returned)
is_empty(response) == ~ response.raises /\ response.fence = "none" /\ response.body.kind \in {"empty", "blank"}

\* _parse_response: the text between the fences, stripped
extract(response) == IF response.body.kind = "blank" THEN Body("empty", PyNone, PyNone) ELSE response.body

\* json.loads: ok is false when it raises JSONDecodeError
json_loads(body) == [ok |-> body.kind \in {"object", "array"}, data |-> body]

\* GeminiVisionNavigator._parse_response; raised: an exception other than
\* JSONDecodeError left it (data.get on a list)
parse_response(response) ==
    IF is_empty(response)
    THEN [raised |-> FALSE, action |-> NavigationAction("wait", "Empty response from AI - will retry")]
    ELSE LET loaded == json_loads(extract(response))
         IN IF ~ loaded.ok
            THEN [raised |-> FALSE, action |-> NavigationAction("stuck", "Failed to parse AI response")]
            ELSE IF loaded.data.kind = "array"
            THEN [raised |-> TRUE, action |-> NavigationAction(PyNone, PyNone)]
            ELSE [raised |-> FALSE,
                  action |-> NavigationAction(IF loaded.data.action_type = PyNone THEN "stuck" ELSE loaded.data.action_type,
                                              loaded.data.reasoning)]

\* how many times get_next_action calls the API at most: range(3)
max_attempts == 3

\* get_next_action returning an action
returns(o, action) == [o EXCEPT !.pc = "returned", !.action = action]

\* the action get_next_action returns when the last response is empty too
empty_response_action == NavigationAction("wait", "Empty API response - waiting before retry")

\* GeminiVisionNavigator.get_next_action: one pass of its for loop, with the
\* response the API call of this pass gives (attempt is o.attempts)
get_next_action(o, response) ==
    LET attempt == o.attempts
        called == [o EXCEPT !.attempts = @ + 1, !.responses = Append(@, response)]
        failed == IF attempt = max_attempts - 1
                  THEN returns(called, NavigationAction("stuck", "API Error"))
                  ELSE called
    IN IF response.raises THEN failed
       ELSE IF is_empty(response)
       THEN IF attempt < max_attempts - 1 THEN called ELSE returns(called, empty_response_action)
       ELSE LET parsed == parse_response(response)
            IN IF parsed.raised THEN failed ELSE returns(called, parsed.action)

OracleIdle == oracle = NoOracleCall

\* no stateless helper is called
NoInvocation == invocation = [op |-> "none", args |-> <<>>, ret |-> <<>>]

(***************************************************************************)
(* ElementDiscovery: overlap of bounding boxes and deduplication           *)
(***************************************************************************)
Max(a, b) == IF a >= b THEN a ELSE b

Min(a, b) == IF a <= b THEN a ELSE b

\* a float that is the quotient of two integers, kept as <<numerator, denominator>>
Quotient(num, den) == <<num, den>>

\* the float 0.0
Zero == Quotient(0, 1)

\* a >= b for two such quotients (denominators are positive)
AtLeast(a, b) == a[1] * b[2] >= b[1] * a[2]

\* ElementDiscovery._calculate_iou; boxes are [ymin, xmin, ymax, xmax]
calculate_iou(box1, box2) ==
    IF Len(box1) # 4 \/ Len(box2) # 4 THEN Zero
    ELSE LET x_left == Max(box1[2], box2[2])
             y_top == Max(box1[1], box2[1])
             x_right == Min(box1[4], box2[4])
             y_bottom == Min(box1[3], box2[3])
             intersection == (x_right - x_left) * (y_bottom - y_top)
             area1 == (box1[4] - box1[2]) * (box1[3] - box1[1])
             area2 == (box2[4] - box2[2]) * (box2[3] - box2[1])
             union == area1 + area2 - intersection
         IN IF x_right < x_left \/ y_bottom < y_top THEN Zero
            ELSE IF union = 0 THEN Zero
            ELSE Quotient(intersection, union)

\* the inner loop of deduplicate_elements: some existing element overlaps
is_duplicate(new_elem, existing, threshold) ==
    \E i \in DOMAIN existing : AtLeast(calculate_iou(new_elem.bounding_box.items, existing[i].bounding_box.items), threshold)

\* deduplicate_elements comparing with > instead of >=
RECURSIVE deduplicate_elements_strict(_, _, _)
deduplicate_elements_strict(elements, existing, threshold) ==
    IF elements = <<>> THEN <<>>
    ELSE LET dup == \E i \in DOMAIN existing :
                        LET iou == calculate_iou(Head(elements).bounding_box.items, existing[i].bounding_box.items)
                        IN iou[1] * threshold[2] > threshold[1] * iou[2]
         IN (IF dup THEN <<>> ELSE <<Head(elements)>>) \o deduplicate_elements_strict(Tail(elements), existing, threshold)

\* ElementDiscovery.deduplicate_elements
RECURSIVE deduplicate_elements(_, _, _)
deduplicate_elements(elements, existing, threshold) ==
    IF elements = <<>> THEN <<>>
    ELSE (IF is_duplicate(Head(elements), existing, threshold) THEN <<>> ELSE <<Head(elements)>>)
         \o deduplicate_elements(Tail(elements), existing, threshold)

(***************************************************************************)
(* Actions of the SiteMap                                                  *)
(***************************************************************************)
Call(op, args, ret) == [op |-> op, args |-> args, ret |-> ret]

InitMap ==
    /\ site_map = EmptySiteMap
    /\ clock = 0
    /\ last = Call("__init__", <<>>, None)

AddScreen ==
    \E fingerprint \in Fingerprints : \E c \in Captures(fingerprint) :
        LET r == add_screen(site_map, Now(clock), fingerprint, c.screenshot_path, c.url, c.elements)
        IN /\ site_map' = r.map
           /\ clock' = IF fingerprint \in DOMAIN site_map.screens THEN clock ELSE clock + 1
           /\ last' = Call("add_screen", <<fingerprint, c>>, r.ret)
           /\ UNCHANGED <<navVars, status, oracle, invocation, bfVars>>

AddTransition ==
    /\ Len(site_map.transitions) < MaxTransitions
    /\ \E from_fingerprint \in Fingerprints, click \in Clicks : \E to_fingerprint \in Destinations(from_fingerprint, click.result) :
        LET r == add_transition(site_map, Now(clock), from_fingerprint, click.element_label, to_fingerprint, click.result)
        IN /\ site_map' = r.map
           /\ clock' = clock + 1
           /\ last' = Call("add_transition", <<>>, r.ret)
           /\ UNCHANGED <<navVars, status, oracle, invocation, bfVars>>

GetNextScreenToExplore ==
    LET r == get_next_screen_to_explore(site_map)
    IN /\ site_map' = r.map
       /\ last' = Call("get_next_screen_to_explore", <<>>, r.ret)
       /\ UNCHANGED <<clock, navVars, status, oracle, invocation, bfVars>>

MarkScreenHasIssues ==
    \E fingerprint \in Fingerprints :
        /\ site_map' = mark_screen_has_issues(site_map, fingerprint)
        /\ last' = Call("mark_screen_has_issues", <<fingerprint>>, None)
        /\ UNCHANGED <<clock, navVars, status, oracle, invocation, bfVars>>

\* save_to_disk() followed by load_from_disk(), as at a cycle boundary
SaveAndReload ==
    LET r == load_from_disk(site_map, save_to_disk(site_map, Now(clock)))
    IN /\ site_map' = r.map
       /\ UNCHANGED <<clock, navVars, status, oracle, invocation, bfVars>>
       /\ last' = Call("save_to_disk;load_from_disk", <<site_map>>, r.ret)

\* no navigation session is run
NavIdle ==
    /\ session = NoSession
    /\ pc = "idle"
    /\ run_args = [max_steps |-> 0, max_errors |-> 0]
    /\ should_continue = TRUE
    /\ step_env = NoEnv

Init == InitMap /\ NavIdle /\ DashIdle /\ OracleIdle /\ NoInvocation /\ BruteIdle

\* the map as the exploration uses it
Next ==
    \/ AddScreen
    \/ AddTransition
    \/ GetNextScreenToExplore

Spec == Init /\ [][Next]_vars

\* the map with issue marking and snapshots
NextSnapshot ==
    \/ AddScreen
    \/ AddTransition
    \/ GetNextScreenToExplore
    \/ MarkScreenHasIssues
    \/ SaveAndReload

SpecSnapshot == Init /\ [][NextSnapshot]_vars

\* save_to_disk is in the middle of writing the snapshot file (the call holds
\* the document it writes)
Saving == last.op = "save_to_disk" /\ last.args # <<>>

persistFixed == <<navVars, status, oracle, invocation, engine, bf_pc, bf_args, app, browser, interactions, cycle, stops>>

\* save_to_disk up to open(filepath, "w"): the document is built and the
\* file emptied
SaveOpen ==
    /\ ~ Saving
    /\ clock < MaxClock
    /\ disk' = Partial(save_to_disk(site_map, Now(clock)), 0)
    /\ clock' = clock + 1
    /\ last' = Call("save_to_disk", <<save_to_disk(site_map, Now(clock))>>, None)
    /\ UNCHANGED <<site_map, persistFixed>>

\* save_to_disk: json.dump writes the next member, or the closing brace
\* after the last one, and the file is closed
SaveWrite ==
    /\ Saving
    /\ IF Len(disk.members) < Len(Members)
       THEN /\ disk' = Partial(last.args[1], Len(disk.members) + 1)
            /\ UNCHANGED last
       ELSE /\ disk' = last.args[1]
            /\ last' = Call("save_to_disk", <<>>, None)
    /\ UNCHANGED <<site_map, clock, persistFixed>>

\* the process is killed while save_to_disk writes; the next process starts
\* with a new SiteMap
Crash ==
    /\ Saving
    /\ site_map' = EmptySiteMap
    /\ last' = Call("__init__", <<>>, None)
    /\ UNCHANGED <<clock, disk, persistFixed>>

LoadFromDisk ==
    /\ ~ Saving
    /\ LET r == load_from_disk(site_map, disk)
       IN /\ site_map' = r.map
          /\ last' = Call("load_from_disk", <<site_map, disk>>, r.ret)
    /\ UNCHANGED <<clock, disk, persistFixed>>

\* SiteMap.clear
Clear ==
    /\ ~ Saving
    /\ site_map' = EmptySiteMap
    /\ last' = Call("clear", <<>>, None)
    /\ UNCHANGED <<clock, disk, persistFixed>>

\* the results of a click that count as an issue (Transition.result)
FailedResults == {"error", "crash"}

\* add_transition recording a click that failed (the page stays where it was)
AddFailedTransition ==
    /\ Len(site_map.transitions) < MaxTransitions
    /\ \E from_fingerprint \in Fingerprints, element_label \in {"A", "B"}, result \in FailedResults :
        LET r == add_transition(site_map, Now(clock), from_fingerprint, element_label, from_fingerprint, result)
        IN /\ site_map' = r.map
           /\ clock' = clock + 1
           /\ last' = Call("add_transition", <<>>, r.ret)
           /\ UNCHANGED <<navVars, status, oracle, invocation, bfVars>>

\* the calls that change the map, none of them while a save is writing
MapCall ==
    /\ ~ Saving
    /\ clock < MaxClock
    /\ \/ AddScreen
       \/ AddTransition
       \/ AddFailedTransition
       \/ MarkScreenHasIssues

\* the map and its snapshot file
NextPersist ==
    \/ MapCall
    \/ Clear
    \/ SaveOpen
    \/ SaveWrite
    \/ Crash
    \/ LoadFromDisk

SpecPersist == Init /\ [][NextPersist]_vars

(***************************************************************************)
(* Actions of run_session                                                  *)
(***************************************************************************)
InitNav ==
    /\ InitMap
    /\ session = NoSession
    /\ pc = "start"
    /\ run_args \in [max_steps : 0..MaxSteps, max_errors : 1..MaxErrors]
    /\ should_continue = TRUE
    /\ step_env = NoEnv
    /\ DashIdle
    /\ OracleIdle
    /\ NoInvocation
    /\ BruteIdle

\* run_session: start_session
StartSession ==
    /\ pc = "start"
    /\ session' = start_session(run_args.max_errors)
    /\ pc' = "loop"
    /\ UNCHANGED <<run_args, should_continue, step_env, mapVars, status, oracle, invocation, bfVars>>

\* run_session: start_session raises (the browser does not start, or the
\* first navigation fails) after current_session was created; the exception
\* leaves run_session
StartSessionRaises ==
    /\ pc = "start"
    /\ session' = NavigationSession(run_args.max_errors)
    /\ pc' = "raised"
    /\ UNCHANGED <<run_args, should_continue, step_env, mapVars, status, oracle, invocation, bfVars>>

\* run_session: one iteration of the while loop
ExecuteStep ==
    /\ pc = "loop"
    /\ should_continue
    /\ loop_condition(session, run_args.max_steps)
    /\ \E env \in StepEnvs :
           LET r == execute_step(session, env)
           IN /\ session' = r.session
              /\ should_continue' = r.ret
              /\ step_env' = env
    /\ UNCHANGED <<pc, run_args, mapVars, status, oracle, invocation, bfVars>>

\* run_session: the loop is left (break, or the condition is false) and the
\* session is checked for timeout, finalised and returned
ReturnSession ==
    /\ pc = "loop"
    /\ ~ should_continue \/ ~ loop_condition(session, run_args.max_steps)
    /\ session' = finish_session(session, run_args.max_steps)
    /\ pc' = "returned"
    /\ UNCHANGED <<run_args, should_continue, step_env, mapVars, status, oracle, invocation, bfVars>>

NextNav ==
    \/ StartSession
    \/ StartSessionRaises
    \/ ExecuteStep
    \/ ReturnSession

SpecNav == InitNav /\ [][NextNav]_vars

(***************************************************************************)
(* Actions of run_exploration and run_continuous                           *)
(***************************************************************************)
\* the applications the engine is run on
Apps == {SingleScreenApp(n) : n \in 1..MaxElements} \cup {TwoScreenApp, LeafApp, FaultyApp, OverlappingApp}

\* how the engine is run: one or more direct run_exploration calls, or
\* run_continuous (which always resumes)
RunArgs ==
    {[mode |-> "single", max_screens |-> n, resume |-> r] : n \in 1..MaxScreens, r \in BOOLEAN}
    \cup {[mode |-> "continuous", max_screens |-> n, resume |-> TRUE] : n \in 1..MaxScreens}

InitBrute ==
    /\ InitMap
    /\ NavIdle
    /\ DashIdle
    /\ OracleIdle
    /\ NoInvocation
    /\ engine = NewEngine
    /\ bf_pc = "idle"
    /\ bf_args \in RunArgs
    /\ app \in Apps
    /\ browser = None
    /\ disk = NoFile
    /\ interactions = <<>>
    /\ cycle = NoCycle
    /\ stops = 0

\* what no step of the engine changes
bfFixed == <<last, navVars, status, oracle, invocation, bf_args, app>>

\* run_exploration is called directly: lines 108-113 (stops counts the stop
\* requests made to the call in progress)
RunExploration ==
    /\ bf_args.mode = "single"
    /\ bf_pc \in {"idle", "returned"}
    /\ cycle.number < MaxCycles
    /\ engine' = begin_exploration(engine)
    /\ cycle' = [number |-> cycle.number + 1, ending |-> "none", saved |-> FALSE]
    /\ bf_pc' = "init"
    /\ stops' = 0
    /\ UNCHANGED <<mapVars, browser, disk, interactions, bfFixed>>

\* run_continuous is called: lines 239-250
RunContinuous ==
    /\ bf_args.mode = "continuous"
    /\ bf_pc = "idle"
    /\ engine' = [engine EXCEPT !.running = TRUE, !.stop_requested = FALSE, !.run_number = 0]
    /\ bf_pc' = "wrapper"
    /\ UNCHANGED <<mapVars, browser, disk, interactions, cycle, stops, bfFixed>>

\* run_continuous: the while test and, when it passes, lines 253-258 up to
\* the call of run_exploration
WrapperTest ==
    /\ bf_pc = "wrapper"
    /\ IF keeps_running(engine)
       THEN /\ engine' = [engine EXCEPT !.run_number = @ + 1]
            /\ bf_pc' = "call"
       ELSE /\ bf_pc' = "stopped"
            /\ UNCHANGED engine
    /\ UNCHANGED <<mapVars, browser, disk, interactions, cycle, stops, bfFixed>>

\* run_exploration as called by run_continuous: lines 108-113
EnterExploration ==
    /\ bf_pc = "call"
    /\ engine' = begin_exploration(engine)
    /\ cycle' = [number |-> cycle.number + 1, ending |-> "none", saved |-> FALSE]
    /\ bf_pc' = "init"
    /\ UNCHANGED <<mapVars, browser, disk, interactions, stops, bfFixed>>

\* run_exploration leaves its try block: the loop was left and the map saved
\* (saved), or an exception took it to the except clause (not saved); then
\* the finally clause, and the return of get_coverage_stats()
Leave(m, k, e, ending, saved) ==
    /\ site_map' = m
    /\ clock' = IF saved THEN k + 1 ELSE k
    /\ disk' = IF saved THEN save_to_disk(m, Now(k)) ELSE disk
    /\ engine' = [e EXCEPT !.running = FALSE]
    /\ cycle' = [cycle EXCEPT !.ending = ending, !.saved = saved]
    /\ bf_pc' = IF bf_args.mode = "continuous" THEN "wait" ELSE "returned"

\* run_exploration lines 115-131: components, load_from_disk when resuming,
\* a new logger, the navigation to the target url (which can raise)
Initialize ==
    /\ bf_pc = "init"
    /\ \E fault \in {"none", "navigate"} :
        LET loaded == IF bf_args.resume THEN load_from_disk(site_map, disk).map ELSE site_map
        IN /\ interactions' = <<>>
           /\ IF fault = "navigate"
              THEN /\ Leave(loaded, clock, engine, "error", FALSE)
                   /\ UNCHANGED browser
              ELSE /\ site_map' = loaded
                   /\ browser' = app.start
                   /\ bf_pc' = "loop"
                   /\ UNCHANGED <<clock, disk, engine, cycle>>
    /\ UNCHANGED <<stops, bfFixed>>

\* one iteration of the loop of run_exploration after its checks: capture,
\* then either the search for another screen or the test of one element
Iterate(fault) ==
    IF fault = "capture" \/ (fault = "discover" /\ ~ is_screen_known(site_map, browser))
    THEN /\ Leave(site_map, clock, engine, "capture_failed", TRUE)
         /\ UNCHANGED <<browser, interactions>>
    ELSE LET cap == capture_current_screen(site_map, clock, app, browser)
             untested == get_untested_elements(cap.map, cap.ret)
             nxt == get_next_screen_to_explore(cap.map)
             t == test_element(cap.map, cap.clock, interactions, engine, app, cap.ret, next_element(untested), fault)
         IN IF untested = <<>>
            THEN IF nxt.ret = None
                 THEN /\ Leave(nxt.map, cap.clock, engine, "coverage", TRUE)
                      /\ UNCHANGED <<browser, interactions>>
                 ELSE /\ site_map' = nxt.map
                      /\ clock' = cap.clock
                      /\ bf_pc' = "reload"
                      /\ UNCHANGED <<engine, disk, cycle, browser, interactions>>
            ELSE /\ engine.elements_tested < MaxTests
                 /\ browser' = t.browser
                 /\ interactions' = t.interactions
                 /\ IF t.raised
                    THEN Leave(t.map, t.clock, t.engine, "error", FALSE)
                    ELSE /\ site_map' = t.map
                         /\ clock' = t.clock
                         /\ engine' = [t.engine EXCEPT !.elements_tested = @ + 1]
                         /\ UNCHANGED <<bf_pc, disk, cycle>>

\* run_exploration: the while test and one iteration (lines 133-173); when
\* the loop is left, the save and the return as well
ExploreStep ==
    /\ bf_pc = "loop"
    /\ IF ~ keeps_running(engine)
       THEN /\ Leave(site_map, clock, engine, "stop", TRUE)
            /\ UNCHANGED <<browser, interactions>>
       ELSE \/ /\ Leave(site_map, clock, engine, "timeout", TRUE)
               /\ UNCHANGED <<browser, interactions>>
            \/ /\ Len(site_map.screen_keys) >= bf_args.max_screens
               /\ Leave(site_map, clock, engine, "max_screens", TRUE)
               /\ UNCHANGED <<browser, interactions>>
            \/ /\ Len(site_map.screen_keys) < bf_args.max_screens
               /\ \E fault \in Faults : Iterate(fault)
    /\ UNCHANGED <<stops, bfFixed>>

\* run_exploration lines 160-164: the target url is loaded again
Reload ==
    /\ bf_pc = "reload"
    /\ \E fault \in {"none", "navigate"} :
        IF fault = "navigate"
        THEN /\ Leave(site_map, clock, engine, "error", FALSE)
             /\ UNCHANGED browser
        ELSE /\ browser' = app.start
             /\ bf_pc' = "loop"
             /\ UNCHANGED <<mapVars, engine, disk, cycle>>
    /\ UNCHANGED <<last, interactions, stops, bfFixed>>

\* run_continuous lines 264-274: the wait between cycles (it ends early when
\* a stop was requested)
Wait ==
    /\ bf_pc = "wait"
    /\ bf_pc' = "wrapper"
    /\ UNCHANGED <<mapVars, engine, browser, disk, interactions, cycle, stops, bfFixed>>

\* the engine is being run
Running == bf_pc \in {"wrapper", "call", "init", "loop", "reload", "wait"}

\* another thread calls stop()
Stop ==
    /\ Running
    /\ stops < MaxStops
    /\ engine' = stop(engine)
    /\ stops' = stops + 1
    /\ UNCHANGED <<mapVars, bf_pc, browser, disk, interactions, cycle, bfFixed>>

\* SIGINT or SIGTERM arrives while run_continuous runs
Signal ==
    /\ Running
    /\ bf_args.mode = "continuous"
    /\ stops < MaxStops
    /\ engine' = signal_handler(engine)
    /\ stops' = stops + 1
    /\ UNCHANGED <<mapVars, bf_pc, browser, disk, interactions, cycle, bfFixed>>

\* the steps of the engine itself
EngineStep ==
    \/ RunExploration
    \/ RunContinuous
    \/ WrapperTest
    \/ EnterExploration
    \/ Initialize
    \/ ExploreStep
    \/ Reload
    \/ Wait

NextBrute ==
    \/ EngineStep
    \/ Stop
    \/ Signal

SpecBrute == InitBrute /\ [][NextBrute]_vars

\* the engine's thread keeps running
SpecBruteFair == InitBrute /\ [][NextBrute]_vars /\ WF_vars(EngineStep)

(***************************************************************************)
(* Actions of the Dashboard: a session run by run_navigation_session in a  *)
(* background thread, and the Start and Stop buttons                       *)
(***************************************************************************)
\* (the Max Steps input of the page is at least 5: it is never 0)
InitCancel ==
    /\ InitMap
    /\ session = NoSession
    /\ pc = "dash_idle"
    /\ run_args \in [max_steps : 1..MaxSteps, max_errors : {dashboard_max_errors}]
    /\ should_continue = TRUE
    /\ step_env = NoEnv
    /\ DashIdle
    /\ OracleIdle
    /\ NoInvocation
    /\ BruteIdle

bfRest == <<engine, bf_pc, bf_args, app, browser, disk, interactions, cycle>>

\* the Start Session button: the status is written and the thread started
StartButton ==
    /\ pc = "dash_idle"
    /\ ~ status.running
    /\ status' = write_status(status, TRUE, 0)
    /\ pc' = "dash_start"
    /\ UNCHANGED <<session, run_args, should_continue, step_env, mapVars, oracle, invocation, bfVars>>

\* the Stop button, shown while the status says running
StopButton ==
    /\ pc \in {"dash_start", "dash_loop"}
    /\ status.running
    /\ stops < MaxStops
    /\ status' = write_status_running(status, FALSE)
    /\ stops' = stops + 1
    /\ UNCHANGED <<navVars, mapVars, oracle, invocation, bfRest>>

\* run_navigation_session up to its loop: the status is written again and
\* the session started; when start_session raises, the except and finally
\* clauses end the thread
DashStart ==
    /\ pc = "dash_start"
    /\ \/ /\ session' = start_session(run_args.max_errors)
          /\ status' = write_status(status, TRUE, 0)
          /\ pc' = "dash_loop"
       \/ /\ session' = NavigationSession(run_args.max_errors)
          /\ status' = write_status_running(write_status(status, TRUE, 0), FALSE)
          /\ pc' = "dash_done"
    /\ UNCHANGED <<run_args, should_continue, step_env, mapVars, oracle, invocation, bfVars>>

\* run_navigation_session: one iteration of its loop
DashStep ==
    /\ pc = "dash_loop"
    /\ should_continue
    /\ dashboard_condition(session, run_args.max_steps, status)
    /\ status' = write_status_step_count(status, session.step_count + 1)
    /\ \E env \in StepEnvs :
           LET r == execute_step(session, env)
           IN /\ session' = r.session
              /\ should_continue' = r.ret
              /\ step_env' = env
    /\ UNCHANGED <<pc, run_args, mapVars, oracle, invocation, bfVars>>

\* run_navigation_session: the loop is left, the results are reported, the
\* engine cleaned up and the status written a last time
DashFinish ==
    /\ pc = "dash_loop"
    /\ ~ should_continue \/ ~ dashboard_condition(session, run_args.max_steps, status)
    /\ status' = write_status_running(status, FALSE)
    /\ pc' = "dash_done"
    /\ UNCHANGED <<session, run_args, should_continue, step_env, mapVars, oracle, invocation, bfVars>>

NextCancel ==
    \/ StartButton
    \/ StopButton
    \/ DashStart
    \/ DashStep
    \/ DashFinish

SpecCancel == InitCancel /\ [][NextCancel]_vars

(***************************************************************************)
(* Actions of the action oracle: a call of get_next_action                 *)
(***************************************************************************)
InitOracle ==
    /\ InitMap
    /\ NavIdle
    /\ DashIdle
    /\ OracleIdle
    /\ NoInvocation
    /\ BruteIdle

\* get_next_action is called: the prompt is built and the loop entered
CallOracle ==
    /\ oracle.pc = "idle"
    /\ oracle' = [oracle EXCEPT !.pc = "loop"]
    /\ UNCHANGED <<mapVars, navVars, status, invocation, bfVars>>

\* one pass of the loop of get_next_action
Attempt ==
    /\ oracle.pc = "loop"
    /\ oracle.attempts < max_attempts
    /\ \E response \in Responses : oracle' = get_next_action(oracle, response)
    /\ UNCHANGED <<mapVars, navVars, status, invocation, bfVars>>

NextOracle ==
    \/ CallOracle
    \/ Attempt

SpecOracle == InitOracle /\ [][NextOracle]_vars

(***************************************************************************)
(* The map and a snapshot file that something else has written to           *)
(***************************************************************************)
\* save_to_disk as a whole
Save ==
    /\ clock < MaxClock
    /\ disk' = save_to_disk(site_map, Now(clock))
    /\ clock' = clock + 1
    /\ last' = Call("save_to_disk", <<>>, None)
    /\ UNCHANGED <<site_map, persistFixed>>

\* the snapshot file is edited, or written by another version of the tool:
\* one of its sections no longer converts
Damage ==
    /\ disk # NoFile
    /\ disk.version # "damaged"
    /\ \E section \in {"screens", "transitions"} : disk' = Damaged(disk, section)
    /\ UNCHANGED <<site_map, clock, last, persistFixed>>

NextDamaged ==
    \/ MapCall
    \/ Save
    \/ Damage
    \/ LoadFromDisk

SpecDamaged == Init /\ [][NextDamaged]_vars

(***************************************************************************)
(* Calls of the ElementDiscovery helpers                                   *)
(***************************************************************************)
Invocation(op, args, ret) == [op |-> op, args |-> args, ret |-> ret]

\* coordinates on the 0-1000 scale
Coordinates == {0, 800, 1000}

\* bounding boxes [ymin, xmin, ymax, xmax], those without area included
Boxes == {<<ymin, xmin, ymax, xmax>> : ymin \in Coordinates, xmin \in Coordinates, ymax \in Coordinates, xmax \in Coordinates} \cap {box \in Seq(Coordinates) : Len(box) = 4 /\ box[1] <= box[3] /\ box[2] <= box[4]}

\* the boxes of the elements that are deduplicated: the whole screen, four
\* fifths of it, a corner of it, the opposite corner, and the box [0, 0, 0, 0]
\* that _parse_response gives an element without one
ElementBoxes == {<<0, 0, 1000, 1000>>, <<0, 0, 1000, 800>>, <<0, 0, 800, 800>>, <<800, 800, 1000, 1000>>, <<0, 0, 0, 0>>}

\* the elements of a list with these boxes, labelled by their position
ElementsOf(boxes) == [i \in DOMAIN boxes |-> Element(ToString(i), boxes[i], 0, 0)]

BoxLists(n) == UNION {[1..k -> ElementBoxes] : k \in 0..n}

\* thresholds: the default 0.8, and 0.5
Thresholds == {Quotient(4, 5), Quotient(1, 2)}

InitElements == Init

Deduplicate ==
    /\ invocation.op = "none"
    /\ \E new \in BoxLists(MaxNew), old \in BoxLists(MaxExisting), threshold \in Thresholds :
        invocation' = Invocation("deduplicate_elements", <<ElementsOf(new), ElementsOf(old), threshold>>,
                                 deduplicate_elements(ElementsOf(new), ElementsOf(old), threshold))
    /\ UNCHANGED <<mapVars, navVars, status, oracle, bfVars>>

CalculateIou ==
    /\ invocation.op = "none"
    /\ \E box1 \in Boxes, box2 \in Boxes :
        invocation' = Invocation("_calculate_iou", <<box1, box2>>, calculate_iou(box1, box2))
    /\ UNCHANGED <<mapVars, navVars, status, oracle, bfVars>>

NextElements ==
    \/ Deduplicate
    \/ CalculateIou

SpecElements == InitElements /\ [][NextElements]_vars

(***************************************************************************)
(* Calls of get_coverage_stats on maps of screens with any number of        *)
(* elements, any of them tested.                                            *)
(***************************************************************************)
\* a screen with n elements, those labelled in tested already tested
CoverageScreen(fingerprint, n, tested) ==
    [fingerprint |-> fingerprint, url |-> "/", screenshot_path |-> "bf_1.png",
     elements |-> ElementsOf([i \in 1..n |-> <<0, 0, 0, 0>>]),
     tested_elements |-> tested, discovered_at |-> Now(0), has_issues |-> FALSE]

\* the map after add_screen of k screens and mark_element_tested of the tested labels
CoverageMap(k, ns, ts) ==
    [EmptySiteMap EXCEPT !.screens = [f \in 1..k |-> CoverageScreen(f, ns[f], ts[f])],
                         !.screen_keys = [f \in 1..k |-> f],
                         !.exploration_queue = [f \in 1..k |-> f]]

InitCoverage == Init

GetCoverageStats ==
    /\ invocation.op = "none"
    /\ \E k \in 0..Cardinality(Fingerprints) :
        \E ns \in [1..k -> 0..MaxElements] :
        \E ts \in [1..k -> SUBSET {ToString(i) : i \in 1..MaxElements}] :
            /\ \A f \in 1..k : ts[f] \subseteq {ToString(i) : i \in 1..ns[f]}
            /\ invocation' = Invocation("get_coverage_stats", <<CoverageMap(k, ns, ts)>>,
                                        get_coverage_stats(CoverageMap(k, ns, ts)))
    /\ UNCHANGED <<mapVars, navVars, status, oracle, bfVars>>

NextCoverage == GetCoverageStats

SpecCoverage == InitCoverage /\ [][NextCoverage]_vars

(***************************************************************************)
(* ActionExecutor: what each coordinate-based action sends to the page.     *)
(***************************************************************************)
\* the page of start_local_browser (iPhone 13, touchscreen) and of
\* start_browserless (desktop, no touchscreen)
MobilePage == [viewport |-> [width |-> 390, height |-> 844], has_touch |-> TRUE]

DesktopPage == [viewport |-> [width |-> 1920, height |-> 1080], has_touch |-> FALSE]

Pages == {MobilePage, DesktopPage}

\* coordinates on and beyond the edges of both viewports
Xs == {0 - 1, 0, 390, 391, 1920, 1921}

Ys == {0 - 1, 0, 844, 845, 1080, 1081}

\* one call on page.mouse, page.touchscreen or page.keyboard
Sent(device, action, at) == [device |-> device, action |-> action, at |-> at]

\* ActionExecutor.validate_viewport_coordinates, and the same test in click
validate_viewport_coordinates(page, x, y) ==
    0 <= x /\ x <= page.viewport.width /\ 0 <= y /\ y <= page.viewport.height

\* ActionExecutor.click: [ret, sent]
click(page, x, y) ==
    IF ~ validate_viewport_coordinates(page, x, y)
    THEN [ret |-> FALSE, sent |-> <<>>]
    ELSE [ret |-> TRUE, sent |-> <<Sent("mouse", "click", <<x, y>>)>>]

\* ActionExecutor.tap: touchscreen.tap raises on a page without touch, and
\* the except branch falls back to click
tap(page, x, y) ==
    IF page.has_touch
    THEN [ret |-> TRUE, sent |-> <<Sent("touchscreen", "tap", <<x, y>>)>>]
    ELSE click(page, x, y)

\* ActionExecutor.type_text
type_text(page, x, y, press_enter) ==
    LET focus == click(page, x, y)
        keys == <<Sent("keyboard", "press Meta+a", <<>>), Sent("keyboard", "press Backspace", <<>>), Sent("keyboard", "type", <<>>)>>
        enter == IF press_enter THEN <<Sent("keyboard", "press Enter", <<>>)>> ELSE <<>>
    IN IF ~ focus.ret
       THEN [ret |-> FALSE, sent |-> focus.sent]
       ELSE [ret |-> TRUE, sent |-> focus.sent \o keys \o enter]

InitExecutor == Init

ClickAt ==
    /\ invocation.op = "none"
    /\ \E page \in Pages, x \in Xs, y \in Ys :
        invocation' = Invocation("click", <<page, x, y>>, click(page, x, y))
    /\ UNCHANGED <<mapVars, navVars, status, oracle, bfVars>>

TapAt ==
    /\ invocation.op = "none"
    /\ \E page \in Pages, x \in Xs, y \in Ys :
        invocation' = Invocation("tap", <<page, x, y>>, tap(page, x, y))
    /\ UNCHANGED <<mapVars, navVars, status, oracle, bfVars>>

TypeTextAt ==
    /\ invocation.op = "none"
    /\ \E page \in Pages, x \in Xs, y \in Ys, press_enter \in BOOLEAN :
        invocation' = Invocation("type_text", <<page, x, y, press_enter>>, type_text(page, x, y, press_enter))
    /\ UNCHANGED <<mapVars, navVars, status, oracle, bfVars>>

NextExecutor ==
    \/ ClickAt
    \/ TapAt
    \/ TypeTextAt

SpecExecutor == InitExecutor /\ [][NextExecutor]_vars

(***************************************************************************)
(* Diagnostics: IssueCategorizer, SeverityScorer and IssueDetector.         *)
(***************************************************************************)
\* a string together with the rule keywords that occur in its lower-case form
\* (what "kw in text.lower()" is asked about)
Text(text, keywords) == [text |-> text, keywords |-> keywords]

Descriptions ==
    {Text("Page crashed with 500 error - cannot proceed", {"crash", "500", "error", "cannot proceed"}),
     Text("Button label is unclear and confusing", {"unclear", "confusing"}),
     Text("Small text is hard to read", {"small text", "hard to read"}),
     Text("Action failed: tap the Login button", {"failed"}),
     Text("Nothing to report", {})}

\* the states the tests pass, and NavigationState values as execute_step passes them
NavigationStates ==
    {Text("ERROR", {"error"}), Text("TIMEOUT", {"timeout"}), Text("STUCK", {"stuck"}),
     Text("stuck", {"stuck"}), Text("navigating", {})}

ErrorMessages == {Text("", {}), Text("Internal Server Error", {"error"})}

StepNumbers == {5, 6, 11}

ErrorCounts == {0, 2, 3}

FailedActionTypes == {"click", "type"}

Pattern(category, keywords, subcategories) == [category |-> category, keywords |-> keywords, subcategories |-> subcategories]

\* IssueCategorizer.patterns, in the order of the dict
patterns ==
    <<Pattern("UX_FRICTION", {"confusing", "unclear", "hard to find", "not obvious", "where is", "can't see", "hidden", "difficult"}, <<"Unclear UI", "Hidden Elements", "Confusing Labels">>),
      Pattern("TECHNICAL_ERROR", {"error", "crash", "500", "404", "timeout", "failed", "broken", "not working", "exception"}, <<"HTTP Error", "JavaScript Error", "Network Timeout">>),
      Pattern("ACCESSIBILITY", {"small text", "hard to read", "low contrast", "tiny button", "can't tap", "too small"}, <<"Small Text", "Touch Target Too Small", "Poor Contrast">>),
      Pattern("PERFORMANCE", {"slow", "loading", "lag", "frozen", "waiting", "spinner", "taking too long"}, <<"Slow Load", "No Loading Indicator", "Page Lag">>),
      Pattern("BROKEN_FLOW", {"stuck", "cannot proceed", "blocked", "dead end", "missing step", "no next button"}, <<"Missing Button", "Dead End", "Incomplete Flow">>),
      Pattern("FORM_VALIDATION", {"invalid input", "validation", "required field", "format", "password requirements", "email error"}, <<"Unclear Requirements", "Validation Error", "Input Format">>),
      Pattern("NAVIGATION", {"can't navigate", "back button", "navigation", "menu", "lost", "where am i"}, <<"Confusing Navigation", "Missing Back Button", "Deep Navigation">>),
      Pattern("CONTENT", {"missing information", "no help", "unclear instructions", "what does this mean", "explanation"}, <<"Missing Help Text", "Unclear Instructions", "No Explanation">>)>>

\* the keywords of pattern i found in the combined text
keyword_matches(i, combined) == patterns[i].keywords \cap combined

\* max(scores, key=scores.get): the first scored category with the highest score
best_category(combined) ==
    CHOOSE i \in DOMAIN patterns :
        /\ keyword_matches(i, combined) # {}
        /\ \A j \in DOMAIN patterns : Cardinality(keyword_matches(j, combined)) <= Cardinality(keyword_matches(i, combined))
        /\ \A j \in 1..(i - 1) : Cardinality(keyword_matches(j, combined)) < Cardinality(keyword_matches(i, combined))

CategorizedIssue(category, subcategory, confidence, keywords_matched) ==
    [category |-> category, subcategory |-> subcategory, confidence |-> confidence, keywords_matched |-> keywords_matched]

\* IssueCategorizer._determine_subcategory
determine_subcategory(i) == IF patterns[i].subcategories # <<>> THEN patterns[i].subcategories[1] ELSE "General"

\* IssueCategorizer.categorize (confidence in hundredths)
categorize(description, navigation_state, error_message) ==
    LET combined == description.keywords \cup navigation_state.keywords \cup error_message.keywords
        scores == {i \in DOMAIN patterns : keyword_matches(i, combined) # {}}
    IN IF navigation_state.text \in {"ERROR", "TIMEOUT"}
       THEN CategorizedIssue("TECHNICAL_ERROR", "System Error", 90, keyword_matches(2, combined))
       ELSE IF navigation_state.text = "STUCK"
       THEN CategorizedIssue("BROKEN_FLOW", "Cannot Progress", 85, keyword_matches(5, combined))
       ELSE IF scores # {}
       THEN LET best == best_category(combined)
            IN CategorizedIssue(patterns[best].category, determine_subcategory(best),
                                Min(60 + 10 * Cardinality(keyword_matches(best, combined)), 95),
                                keyword_matches(best, combined))
       ELSE CategorizedIssue("UX_FRICTION", "General Friction", 50, {})

SeverityScore(severity, confidence, user_impact_percentage) ==
    [severity |-> severity, confidence |-> confidence, user_impact_percentage |-> user_impact_percentage]

\* SeverityScorer.score_issue (confidence in hundredths)
score_issue(issue_category, navigation_state, step_count, error_count, user_stuck, description) ==
    IF navigation_state.text \in {"ERROR", "TIMEOUT"} /\ error_count >= 3
    THEN SeverityScore("P0", 95, 100)
    ELSE IF user_stuck /\ step_count > 5 /\ description.keywords \cap {"cannot proceed", "blocked", "broken", "missing button"} # {}
    THEN SeverityScore("P0", 90, 80)
    ELSE IF issue_category = "TECHNICAL_ERROR" /\ description.keywords \cap {"error message", "crash", "500", "404", "timeout"} # {}
    THEN SeverityScore("P1", 85, 60)
    ELSE IF issue_category = "UX_FRICTION" /\ (user_stuck \/ error_count >= 2)
    THEN SeverityScore("P1", 80, 50)
    ELSE IF issue_category \in {"UX_FRICTION", "ACCESSIBILITY"} /\ step_count > 10
    THEN SeverityScore("P2", 75, 30)
    ELSE IF description.keywords \cap {"unclear", "confusing", "hard to find", "small text"} # {}
    THEN SeverityScore("P2", 70, 25)
    ELSE SeverityScore("P3", 60, 10)

\* what diagnose_failure returns: the model's JSON object (a key it leaves out
\* reads as None through dict.get), or the dict of its own except branch
Diagnosis(description, suggested_fix) == [description |-> description, suggested_fix |-> suggested_fix]

Diagnoses ==
    {Diagnosis("The server answered 500", "Restart the service"),
     Diagnosis("The server answered 500", PyNone),
     Diagnosis(PyNone, "Restart the service"),
     Diagnosis("Unable to diagnose: quota", "Manual investigation required")}

\* the rules table of _rule_based_root_cause: <<root cause, fix>>
rules(category) ==
    CASE category = "UX_FRICTION" -> <<"UI elements are unclear or hard to locate", "Improve button labels, add visual cues, or simplify layout">>
      [] category = "TECHNICAL_ERROR" -> <<"System error or broken functionality", "Check server logs, fix API endpoint, or handle error gracefully">>
      [] category = "ACCESSIBILITY" -> <<"Touch targets too small or text hard to read", "Increase button size to 44x44px minimum, use larger font sizes">>
      [] category = "PERFORMANCE" -> <<"Page loading too slowly", "Optimize assets, add loading indicators, reduce bundle size">>
      [] category = "BROKEN_FLOW" -> <<"Missing button or incomplete user flow", "Add missing navigation elements or complete the flow">>
      [] category = "FORM_VALIDATION" -> <<"Input validation requirements unclear", "Show validation requirements upfront, provide helpful error messages">>
      [] category = "NAVIGATION" -> <<"Navigation structure confusing", "Simplify navigation, add breadcrumbs, or provide back button">>
      [] category = "CONTENT" -> <<"Missing or unclear information", "Add help text, tooltips, or explanatory content">>
      [] OTHER -> <<"Unknown root cause", "Manual investigation required">>

\* IssueDetector._rule_based_root_cause: <<root cause, fix>>
rule_based_root_cause(category, navigation_state) ==
    LET rule == rules(category)
    IN <<IF navigation_state.text = "STUCK" THEN rule[1] \o " - User unable to proceed"
         ELSE IF navigation_state.text = "ERROR" THEN rule[1] \o " - Critical failure occurred"
         ELSE rule[1],
         rule[2]>>

\* IssueDetector._parse_ai_analysis: <<root cause, fix>>; ai_analysis is <<>> for None
parse_ai_analysis(ai_analysis) ==
    IF ai_analysis = <<>> THEN <<PyNone, PyNone>>
    ELSE <<ai_analysis[1].description, ai_analysis[1].suggested_fix>>

\* IssueDetector.__init__
IssueDetector(has_navigator) == [has_navigator |-> has_navigator, issue_counter |-> 0]

\* IssueDetector.detect_issue: [detector, ret]
detect_issue(detector, description, step_number, navigation_state, error_count, action_type, error_message, has_screenshot_b64, diagnosis) ==
    LET categorization == categorize(description, navigation_state, error_message)
        severity_score == score_issue(categorization.category, navigation_state, step_number, error_count,
                                      navigation_state.text = "STUCK", description)
        ai_analysis == IF detector.has_navigator /\ has_screenshot_b64 /\ severity_score.severity \in {"P0", "P1"}
                       THEN <<diagnosis>> ELSE <<>>
        parsed == parse_ai_analysis(ai_analysis)
        cause == IF parsed[1] \in {PyNone, ""}
                 THEN rule_based_root_cause(categorization.category, navigation_state)
                 ELSE parsed
    IN [detector |-> [detector EXCEPT !.issue_counter = @ + 1],
        ret |-> [issue_id |-> detector.issue_counter + 1,
                 title |-> <<severity_score.severity, categorization.subcategory, description.text>>,
                 description |-> description.text,
                 category |-> categorization.category,
                 subcategory |-> categorization.subcategory,
                 severity |-> severity_score.severity,
                 severity_score |-> severity_score,
                 categorization |-> categorization,
                 step_number |-> step_number,
                 navigation_state |-> navigation_state.text,
                 error_count |-> error_count,
                 root_cause |-> cause[1],
                 recommended_fix |-> cause[2],
                 ai_analysis |-> ai_analysis,
                 metadata |-> [action_type |-> action_type, error_message |-> error_message.text, keywords_matched |-> categorization.keywords_matched]]]

InitDetector == Init

DetectIssue ==
    /\ invocation.op = "none"
    /\ \E description \in Descriptions, step_number \in StepNumbers, navigation_state \in NavigationStates,
          error_count \in ErrorCounts, action_type \in FailedActionTypes, error_message \in ErrorMessages,
          has_navigator \in BOOLEAN, has_screenshot_b64 \in BOOLEAN, diagnosis \in Diagnoses :
        invocation' = Invocation("detect_issue",
                                 <<description, step_number, navigation_state, error_count, action_type, error_message, has_navigator, has_screenshot_b64>>,
                                 detect_issue(IssueDetector(has_navigator), description, step_number, navigation_state, error_count,
                                              action_type, error_message, has_screenshot_b64, diagnosis).ret)
    /\ UNCHANGED <<mapVars, navVars, status, oracle, bfVars>>

NextDetector == DetectIssue

SpecDetector == InitDetector /\ [][NextDetector]_vars

(***************************************************************************)
(* Claims about the SiteMap                                                *)
(***************************************************************************)
NoDuplicates(list) == \A i, j \in DOMAIN list : list[i] = list[j] => i = j

HasUntested(m, fingerprint) == \E i \in DOMAIN m.screens[fingerprint].elements : m.screens[fingerprint].elements[i].label \notin m.screens[fingerprint].tested_elements

\* the calls of add_transition the model makes
TransitionCalls == { call \in [from : Fingerprints, click : Clicks, to : Fingerprints] : call.to \in Destinations(call.from, call.click.result) }

AfterTransition(call) == add_transition(site_map, Now(clock), call.from, call.click.element_label, call.to, call.click.result).map

C2_UntestedElements ==
    /\ \A f \in Fingerprints :
           get_untested_elements(site_map, f) =
               IF f \in DOMAIN site_map.screens
               THEN SelectSeq(site_map.screens[f].elements, LAMBDA e : e.label \notin site_map.screens[f].tested_elements)
               ELSE <<>>
    /\ \A call \in TransitionCalls :
           call.from \in DOMAIN site_map.screens =>
               LET after == AfterTransition(call)
                   untested == get_untested_elements(after, call.from)
               IN /\ \A i \in DOMAIN untested : untested[i].label # call.click.element_label
                  /\ untested = SelectSeq(get_untested_elements(site_map, call.from), LAMBDA e : e.label # call.click.element_label)
                  /\ \A g \in Fingerprints \ {call.from} : get_untested_elements(after, g) = get_untested_elements(site_map, g)
    /\ last.op = "add_transition" =>
           \A i \in DOMAIN get_untested_elements(site_map, last.ret.from_screen) : get_untested_elements(site_map, last.ret.from_screen)[i].label # last.ret.element_label

\* add_transition has just marked "A" on a known screen that still has "B" untested
C2_Witness ==
    /\ last.op = "add_transition"
    /\ last.ret.from_screen \in DOMAIN site_map.screens
    /\ last.ret.element_label = "A"
    /\ get_untested_elements(site_map, last.ret.from_screen) = <<ElemB>>

\* C3: an add_transition call never decreases the tested_elements and
\* coverage_percent that get_coverage_stats reports, and every screen's
\* tested labels only grow.
C3_CoverageMonotone ==
    LET before == get_coverage_stats(site_map)
    IN \A call \in TransitionCalls :
           LET after == AfterTransition(call)
               stats == get_coverage_stats(after)
           IN /\ stats.tested_elements >= before.tested_elements
              /\ stats.coverage_percent >= before.coverage_percent
              /\ DOMAIN after.screens = DOMAIN site_map.screens
              /\ \A f \in DOMAIN site_map.screens : site_map.screens[f].tested_elements \subseteq after.screens[f].tested_elements

\* two add_transition calls have raised the coverage of a map of four elements to 50.0 percent
C3_Witness ==
    /\ last.op = "add_transition"
    /\ Len(site_map.transitions) = 2
    /\ get_coverage_stats(site_map).total_elements = 4
    /\ get_coverage_stats(site_map).tested_elements = 2
    /\ get_coverage_stats(site_map).coverage_percent = 500

\* C4: get_next_screen_to_explore returns None exactly when no known screen
\* has an untested element; a fingerprint it returns is a known screen with an
\* untested element, the head of the exploration queue after eviction unless
\* that queue is empty.
C4_NextScreenToExplore ==
    last.op = "get_next_screen_to_explore" =>
        /\ last.ret = None <=> ~ \E f \in DOMAIN site_map.screens : HasUntested(site_map, f)
        /\ last.ret # None => last.ret \in DOMAIN site_map.screens /\ HasUntested(site_map, last.ret)
        /\ site_map.exploration_queue # <<>> => last.ret = Head(site_map.exploration_queue)
        /\ get_next_screen_to_explore(site_map) = [map |-> site_map, ret |-> last.ret]

\* get_next_screen_to_explore evicted a fully tested screen from the queue and
\* returned the screen behind it
C4_Witness ==
    /\ last.op = "get_next_screen_to_explore"
    /\ last.ret # None
    /\ Len(site_map.screen_keys) = 2
    /\ site_map.exploration_queue = <<last.ret>>
    /\ site_map.screen_keys[1] # last.ret
    /\ site_map.screens[site_map.screen_keys[1]].elements # <<>>

\* C5: saving a SiteMap and loading the saved snapshot (into the same object
\* or a fresh one) gives back the same screens, the same transitions in order
\* with their timestamps, and the same exploration queue.
C5_SnapshotRoundTrip ==
    /\ load_from_disk(EmptySiteMap, save_to_disk(site_map, Now(clock))) = [map |-> site_map, ret |-> TRUE]
    /\ load_from_disk(site_map, save_to_disk(site_map, Now(clock))) = [map |-> site_map, ret |-> TRUE]
    /\ last.op = "save_to_disk;load_from_disk" => last.ret = TRUE /\ site_map = last.args[1]

\* a map with a screen that has issues and tested labels, transitions stamped
\* with and without microseconds, and a queue, was just saved and loaded
C5_Witness ==
    /\ last.op = "save_to_disk;load_from_disk"
    /\ \E f \in DOMAIN site_map.screens : site_map.screens[f].has_issues /\ site_map.screens[f].tested_elements # {} /\ site_map.screens[f].elements # <<>>
    /\ \E i, j \in DOMAIN site_map.transitions : site_map.transitions[i].timestamp.usec = 0 /\ site_map.transitions[j].timestamp.usec # 0
    /\ site_map.exploration_queue # <<>>
    /\ Len(site_map.exploration_queue) < Len(site_map.screen_keys)

(***************************************************************************)
(* Claims about the navigation session                                     *)
(***************************************************************************)
Last(list) == list[Len(list)]

\* this step of the model is a call of execute_step by run_session
IsStep == pc = "loop" /\ pc' = "loop" /\ session'.step_count # session.step_count

\* the step reached the oracle and this is its decision
Decided(action_type) == step_env'.page # "lost" /\ ~ step_env'.capture_raises /\ step_env'.action.action_type = action_type

\* once execute_step has returned False run_session takes no further step
NoStepAfterBreak == pc = "loop" /\ ~ should_continue => session'.step_count = session.step_count /\ pc' = "returned"

\* C6: a step whose oracle decision is "done" ends the session in Completed
\* whatever step_count, error_count and stuck_count are; the action is not
\* executed (no error is counted, no issue detected, stuck_count is not
\* reset), the oracle's reasoning becomes the completion reason, and no
\* further step runs: the session is returned Completed, and a direct call
\* of execute_step on it returns False and changes nothing.
C6_DoneCompletes ==
    /\ [][IsStep /\ Decided("done") =>
            /\ session'.state = "completed"
            /\ session'.completion_reason = step_env'.action.reasoning
            /\ Last(session'.state_transitions).to = "completed"
            /\ Last(session'.state_transitions).reason = "Objective completed: " \o step_env'.action.reasoning
            /\ session'.error_count = session.error_count
            /\ session'.stuck_count = session.stuck_count
            /\ session'.issues_detected = session.issues_detected
            /\ ~ should_continue']_vars
    /\ [][NoStepAfterBreak]_vars
    /\ [][pc = "loop" /\ session.state = "completed" => session'.state = "completed"]_vars
    /\ [](pc \in {"loop", "returned"} /\ session.state = "completed" =>
            \A env \in StepEnvs : execute_step(session, env) = [session |-> session, ret |-> FALSE])

\* a session that had counted an error and a stuck decision, and was in
\* state stuck, was returned Completed on a "done" decision
C6_Witness ==
    /\ pc = "returned"
    /\ step_env.action.action_type = "done"
    /\ session.state = "completed"
    /\ session.error_count > 0
    /\ session.stuck_count > 0
    /\ Last(session.state_transitions).from = "stuck"
    /\ session.step_count = 3

\* C7: every "stuck" decision adds one to stuck_count; the step in which
\* stuck_count reaches max_stuck_retries leaves the session in state stuck
\* with execute_step returning False, after which run_session takes no
\* further step; stuck_count never exceeds max_stuck_retries.
C7_StuckTerminal ==
    /\ [][IsStep /\ Decided("stuck") =>
            /\ session'.stuck_count = session.stuck_count + 1
            /\ session'.stuck_count >= session'.max_stuck_retries => session'.state = "stuck" /\ ~ should_continue']_vars
    /\ [][NoStepAfterBreak]_vars
    /\ [](pc \in {"loop", "returned"} => session.stuck_count <= session.max_stuck_retries)
    /\ [](pc = "returned" /\ session.stuck_count >= session.max_stuck_retries => session.state = "stuck")

\* the third "stuck" decision in a row ended a session that still had a step left
C7_Witness ==
    /\ pc = "returned"
    /\ session.state = "stuck"
    /\ session.stuck_count = max_stuck_retries
    /\ session.step_count = 3
    /\ run_args.max_steps = 4
    /\ ~ should_continue

C9_StepBudget ==
    /\ [](pc \in {"loop", "returned"} => session.step_count <= run_args.max_steps)
    /\ [][IsStep => session'.step_count = session.step_count + 1]_vars
    /\ [][pc = "loop" /\ pc' = "returned" /\ session.step_count >= run_args.max_steps /\ session.state = "navigating" =>
            /\ session'.state = "timeout"
            /\ Last(session'.state_transitions) = [from |-> "navigating", to |-> "timeout", timestamp |-> Now(Len(session.state_transitions)), step |-> run_args.max_steps, reason |-> "Reached max steps (" \o ToString(run_args.max_steps) \o ")"]]_vars

\* four successful steps used up a budget of four steps
C9_Witness ==
    /\ pc = "returned"
    /\ session.state = "timeout"
    /\ run_args.max_steps = 4
    /\ session.step_count = 4
    /\ Last(session.state_transitions).reason = "Reached max steps (4)"

\* a terminal state as the session design defines it
Terminal(s) == s.state \in {"completed", "error", "timeout"} \/ (s.state = "stuck" /\ s.stuck_count >= s.max_stuck_retries)

\* C10: whenever run_session returns, the session is Completed, Error,
\* Timeout, or Stuck with stuck_count >= max_stuck_retries, and its last
\* recorded transition carries a non-empty reason.
C10_ReturnsTerminal ==
    pc = "returned" => Terminal(session) /\ Last(session.state_transitions).reason # ""

\* the session's trace is a chain from Initialized to the current state
TraceIsChain(s) ==
    LET trace == s.state_transitions
    IN IF trace = <<>> THEN s.state = "initialized"
       ELSE /\ trace[1].from = "initialized"
            /\ \A i \in 2..Len(trace) : trace[i].from = trace[i - 1].to
            /\ trace[Len(trace)].to = s.state
            /\ \A i \in DOMAIN trace : DOMAIN trace[i] = {"from", "to", "step", "reason", "timestamp"}

\* C11: the state-transition trace is complete.  Every step that sets
\* session.state (to another state or to the same one again) appends exactly
\* one record {from, to, step, reason, timestamp} with from the state before,
\* to the state after and step the step count; a step that appends nothing
\* leaves the state alone; and in every reachable state the records form a
\* chain: the first from is Initialized, each from is the previous to, and
\* the last to is the session's current state.
C11_TraceComplete ==
    /\ [](session # NoSession => TraceIsChain(session))
    /\ [][session # NoSession =>
            \/ session'.state_transitions = session.state_transitions /\ session'.state = session.state
            \/ /\ Len(session'.state_transitions) = Len(session.state_transitions) + 1
               /\ SubSeq(session'.state_transitions, 1, Len(session.state_transitions)) = session.state_transitions
               /\ Last(session'.state_transitions).from = session.state
               /\ Last(session'.state_transitions).to = session'.state
               /\ Last(session'.state_transitions).step = session'.step_count]_vars

\* a session that got stuck, was stuck again, recovered and timed out
C11_Witness ==
    /\ pc = "returned"
    /\ Len(session.state_transitions) = 5
    /\ session.state_transitions[2].to = "stuck"
    /\ session.state_transitions[3].from = "stuck" /\ session.state_transitions[3].to = "stuck"
    /\ session.state_transitions[4].to = "navigating"
    /\ session.state = "timeout"

(***************************************************************************)
(* Claims about the brute-force engine                                     *)
(***************************************************************************)
\* the element this iteration of the loop tests
ElementUnderTest == next_element(get_untested_elements(capture_current_screen(site_map, clock, app, browser).map, browser))

\* the click of this iteration raises
ClickRaises == click_outcome(app, browser, ElementUnderTest).raises

\* C12: when the click on an element raises during a cycle, a transition
\* with result "error" from the current screen for that element is recorded
\* in the SiteMap, the screen's has_issues becomes true, and the cycle goes
\* on (it stays in its loop) with the next untested element: the element
\* whose click raised is no longer untested.
C12_ClickErrorRecorded ==
    [][bf_pc = "loop" /\ engine'.errors_found = engine.errors_found + 1 /\ ClickRaises =>
        LET label == ElementUnderTest.label
        IN /\ \E i \in DOMAIN site_map'.transitions :
                  /\ site_map'.transitions[i].from_screen = browser
                  /\ site_map'.transitions[i].element_label = label
                  /\ site_map'.transitions[i].result = "error"
           /\ site_map'.screens[browser].has_issues
           /\ bf_pc' = "loop"
           /\ \A i \in DOMAIN get_untested_elements(site_map', browser) : get_untested_elements(site_map', browser)[i].label # label]_vars

\* C13: no exception raised by a collaborator inside an iteration of the
\* loop (the before-click screenshot, the click, the reload of the start
\* url, element discovery, interaction logging) ends the cycle: an iteration
\* never leaves the loop through the except clause of run_exploration or
\* through a failed capture; the cycle stays in its loop, or ends for one of
\* its own reasons (stop, timeout, max_screens, coverage).
C13_IterationCatchesAll ==
    [][(bf_pc = "loop" \/ bf_pc = "reload") =>
        /\ cycle'.ending \in {"none", "stop", "timeout", "max_screens", "coverage"}
        /\ (cycle'.ending = "none" => bf_pc' # "returned" /\ bf_pc' # "wait")]_vars

\* C14: on a single-screen application whose n elements carry distinct
\* labels and whose clicks all leave the fingerprint unchanged, a cycle that
\* runs to the end of its exploration (it is not cut short by a stop, the
\* time budget or max_screens, and no collaborator raises) has recorded
\* exactly n no_change transitions, one per element in element order, and
\* ends with get_next_screen_to_explore() = None, coverage_percent = 100 and
\* no screen having has_issues; when it started from the empty map it
\* performed exactly n element tests, in element order.
C14_SingleScreenCycle ==
    \A n \in 1..MaxElements :
        app = SingleScreenApp(n) /\ cycle.ending = "coverage" =>
            /\ site_map.screen_keys = <<1>>
            /\ Len(site_map.transitions) = n
            /\ \A i \in 1..n :
                  /\ site_map.transitions[i].from_screen = 1
                  /\ site_map.transitions[i].to_screen = 1
                  /\ site_map.transitions[i].element_label = NthElement(i).label
                  /\ site_map.transitions[i].result = "no_change"
            /\ get_next_screen_to_explore(site_map).ret = None
            /\ get_coverage_stats(site_map).coverage_percent = 1000
            /\ get_coverage_stats(site_map).screens_with_issues = 0
            /\ ~ site_map.screens[1].has_issues
            /\ engine.errors_found = 0
            /\ cycle.saved
            /\ cycle.number = 1 =>
                  /\ interactions = [i \in 1..n |-> InteractionLog(1, NthElement(i), "no_change")]
                  /\ engine.elements_tested = n

\* the scenario: three elements, three tests, the cycle over
C14_Witness ==
    /\ app = SingleScreenApp(3)
    /\ bf_pc = "returned"
    /\ cycle = [number |-> 1, ending |-> "coverage", saved |-> TRUE]
    /\ Len(interactions) = 3
    /\ Len(site_map.transitions) = 3

\* every element of every registered screen has been tested
AllTested == \A fp \in DOMAIN site_map.screens : get_untested_elements(site_map, fp) = <<>>

\* the cycle was cut short (stop flag, time budget, max_screens) or broken
\* off by a collaborator's failure
CutShort == cycle.ending \in {"stop", "timeout", "max_screens", "error", "capture_failed"}

\* C15: exhaustive coverage.  A cycle that is not cut short eventually has
\* every element of every registered screen tested and then stops because
\* get_next_screen_to_explore() returns None; it does not go on reloading
\* the start url forever while another screen has untested elements.
C15_ExhaustiveCoverage == <>(CutShort \/ (cycle.ending = "coverage" /\ AllTested))

\* C16: every exploration cycle, however it ends (coverage exhausted, stop,
\* timeout, max_screens, capture failure, or an error raised inside the
\* cycle), has saved the SiteMap before it returns: the snapshot file then
\* holds everything the map holds, so that the next cycle resumes from it.
C16_CycleSaves ==
    cycle.ending # "none" =>
        /\ cycle.saved
        /\ disk # NoFile
        /\ load_from_disk(EmptySiteMap, disk).map = site_map

\* C17: run_continuous goes on starting cycles for as long as no stop was
\* requested: it never stops on its own after a completed cycle, so when it
\* has returned, a stop() call or a shutdown signal was made.
C17_ContinuousRepeats == bf_pc = "stopped" => stops > 0

\* a step of the engine that tests an element
TestsElement == bf_pc = "loop" /\ interactions' # interactions

\* a step in which run_continuous starts a cycle
StartsCycle == bf_pc = "call" /\ cycle'.number # cycle.number

\* C18: a stop requested by stop() or by a shutdown signal is never lost:
\* once it was requested, at whatever point of run_exploration or
\* run_continuous, no further element test and no further cycle is started
\* (a test is one step here, so the test in flight has completed).
C18_StopNeverLost == [][stops > 0 => ~ TestsElement /\ ~ StartsCycle]_vars

\* C19: a navigation session is cancelled cooperatively: once a stop was
\* requested no later step of the session is started (a step is one step
\* of the model, so the step in flight has finished), and when the loop
\* over the session's steps is left, the session is in a terminal state.
C19_SessionCancellable ==
    [][stops > 0 =>
        /\ (session.state # "none" => session'.step_count = session.step_count)
        /\ (pc = "dash_loop" /\ pc' = "dash_done" => Terminal(session'))]_vars

\* the attempt got nothing usable: the call raised or the response was empty
Fails(response) == response.raises \/ is_empty(response)

\* the response is a text that is not valid JSON
NotJson(response) == ~ response.raises /\ ~ is_empty(response) /\ ~ json_loads(extract(response)).ok

\* C20: get_next_action makes at most 3 attempts and never raises to its
\* caller; when all its attempts failed (the response was empty, or the call
\* raised, each time) or when the response is not valid JSON, the action it
\* returns has type "stuck".
C20_OracleDegradesToStuck ==
    /\ oracle.attempts <= 3
    /\ ~ oracle.raised
    /\ oracle.pc = "returned" =>
        /\ (\A i \in 1..Len(oracle.responses) : Fails(oracle.responses[i])) => oracle.action.action_type = "stuck"
        /\ NotJson(Last(oracle.responses)) => oracle.action.action_type = "stuck"

(***************************************************************************)
(* Claims about the snapshot file                                          *)
(***************************************************************************)
\* C21: a load_from_disk that finds a snapshot replaces screens, transitions
\* and exploration queue by the snapshot's content whatever the map held
\* before, and a load_from_disk that finds no snapshot file reports no
\* error (it returns False) and leaves the map empty.
C21_LoadReplaces ==
    last.op = "load_from_disk" =>
        /\ (disk = NoFile => last.ret = FALSE /\ site_map = EmptySiteMap)
        /\ (disk # NoFile /\ last.ret => site_map = load_from_disk(EmptySiteMap, disk).map)

\* C22: saving is atomic: at every moment, also in the middle of a
\* save_to_disk and after a crash in the middle of one, the snapshot file,
\* if there is one, is a complete snapshot that load_from_disk loads.
C22_SaveAtomic == disk # NoFile => load_from_disk(EmptySiteMap, disk).ret

(***************************************************************************)
(* Claims about the issue mark of a screen                                 *)
(***************************************************************************)
\* the reading a of the clock was taken before the reading b
Earlier(a, b) == a.sec < b.sec \/ (a.sec = b.sec /\ a.usec < b.usec)

\* the transition was recorded from a screen the map knew then and knows now
FromKnownScreen(t) == t.from_screen \in DOMAIN site_map.screens /\ Earlier(site_map.screens[t.from_screen].discovered_at, t.timestamp)

\* C23: a known screen from which a transition with result error or crash
\* was recorded has has_issues true (and keeps it: the transition stays in
\* the map as long as the screen does, short of clearing or replacing it).
C23_IssuesMarked ==
    \A i \in DOMAIN site_map.transitions :
        LET t == site_map.transitions[i]
        IN t.result \in FailedResults /\ FromKnownScreen(t) => site_map.screens[t.from_screen].has_issues

(***************************************************************************)
(* Claims about ElementDiscovery                                           *)
(***************************************************************************)
\* the element overlaps none of the existing ones by the threshold or more
BelowThreshold(e, existing, threshold) ==
    \A j \in DOMAIN existing : ~ AtLeast(calculate_iou(e.bounding_box.items, existing[j].bounding_box.items), threshold)

\* C24: deduplicate_elements(new, existing, threshold) returns exactly the
\* new elements whose IoU with every existing element is below the
\* threshold, in their input order.
C24_DedupExact ==
    invocation.op = "deduplicate_elements" =>
        LET new == invocation.args[1]
            existing == invocation.args[2]
            threshold == invocation.args[3]
        IN invocation.ret = SelectSeq(new, LAMBDA e : BelowThreshold(e, existing, threshold))

\* two new elements, the first overlapping an existing one by exactly the
\* threshold 0.8 and dropped, the second kept
C24_Witness ==
    /\ invocation.op = "deduplicate_elements"
    /\ invocation.args[3] = Quotient(4, 5)
    /\ Len(invocation.args[1]) = 2
    /\ invocation.args[1][1].bounding_box.items = <<0, 0, 1000, 800>>
    /\ \E j \in DOMAIN invocation.args[2] : invocation.args[2][j].bounding_box.items = <<0, 0, 1000, 1000>>
    /\ invocation.ret = <<invocation.args[1][2]>>

\* the boxes share no point of positive area
NonOverlapping(box1, box2) == box1[4] <= box2[2] \/ box2[4] <= box1[2] \/ box1[3] <= box2[1] \/ box2[3] <= box1[1]

C26_CoverageRounded ==
    invocation.op = "get_coverage_stats" =>
        LET stats == invocation.ret
            error == stats.coverage_percent * stats.total_elements - 1000 * stats.tested_elements
        IN /\ stats.total_elements = 0 => stats.coverage_percent = 0
           /\ stats.total_elements > 0 => 2 * error <= stats.total_elements /\ 2 * (0 - error) <= stats.total_elements

\* two of three elements tested: reported as 66.7
C26_Witness ==
    /\ invocation.op = "get_coverage_stats"
    /\ invocation.ret.total_elements = 3
    /\ invocation.ret.tested_elements = 2
    /\ invocation.ret.coverage_percent = 667

\* C26 as stated: coverage_percent is exactly 100 * tested_elements / total_elements
C26_CoverageExact ==
    invocation.op = "get_coverage_stats" =>
        LET stats == invocation.ret
        IN /\ stats.total_elements = 0 => stats.coverage_percent = 0
           /\ stats.total_elements > 0 => stats.coverage_percent * stats.total_elements = 1000 * stats.tested_elements

\* C27: a click, tap or type_text at coordinates outside the viewport returns
\* False and sends nothing to the page.
C27_NeverOutsideViewport ==
    invocation.op \in {"click", "tap", "type_text"} =>
        (~ validate_viewport_coordinates(invocation.args[1], invocation.args[2], invocation.args[3]) =>
            invocation.ret.ret = FALSE /\ invocation.ret.sent = <<>>)

\* ERROR or TIMEOUT with at least three errors
Failed(args) == args[3].text \in {"ERROR", "TIMEOUT"} /\ args[4] >= 3

\* C28: detect_issue called with navigation state ERROR or TIMEOUT and
\* error_count >= 3 yields severity P0, category TECHNICAL_ERROR, and a root
\* cause and a recommended fix that are not None, whatever the other arguments.
C28_FailedSessionIsP0 ==
    invocation.op = "detect_issue" /\ Failed(invocation.args) =>
        /\ invocation.ret.severity = "P0"
        /\ invocation.ret.category = "TECHNICAL_ERROR"
        /\ invocation.ret.root_cause # PyNone
        /\ invocation.ret.recommended_fix # PyNone

\* C29: a step whose decision is "stuck" and which leaves stuck_count below
\* max_stuck_retries leaves the session in state navigating, and a session
\* returned with its step budget used up, not completed, not in error and
\* with stuck retries left, is in state timeout.
C29_StuckRetryNavigating ==
    /\ [][IsStep /\ Decided("stuck") /\ session'.stuck_count < session'.max_stuck_retries =>
            session'.state = "navigating"]_vars
    /\ [](pc = "returned" /\ session.step_count >= run_args.max_steps
            /\ session.state \notin {"completed", "error"} /\ session.stuck_count < session.max_stuck_retries =>
            session.state = "timeout")

\* the step executed its action and the executor reported success
Succeeded == step_env'.page # "lost" /\ ~ step_env'.capture_raises /\ step_env'.action.action_type \in {"click", "wait"} /\ step_env'.executor_ok

Raised == step_env'.page # "lost" /\ step_env'.capture_raises

\* C31: a step that raises an exception adds one to error_count and leaves
\* the session where a failed action would: in state error when error_count
\* has reached max_errors, in state stuck otherwise.
C31_ExceptionAsFailure ==
    [][IsStep /\ Raised =>
            /\ session'.error_count = session.error_count + 1
            /\ session'.error_count >= session'.max_errors => session'.state = "error"
            /\ session'.error_count < session'.max_errors => session'.state = "stuck"]_vars

\* C35: in every reachable state a session in state error has used up its
\* error budget: error_count >= max_errors.
C35_ErrorMeansBudgetExhausted ==
    session.state = "error" => session.error_count >= session.max_errors

\* execute_step has returned False, or run_session has returned
StepsOver == (pc = "loop" /\ ~ should_continue) \/ pc = "returned"

\* C36: once execute_step has returned False with the session completed, in
\* error or stuck with its retries used up, or run_session has recorded
\* timeout, a further call of execute_step returns False and changes nothing
\* of the session, whatever the collaborators would do.
C36_TerminalAbsorbing ==
    StepsOver /\ Terminal(session) =>
        \A env \in StepEnvs : execute_step(session, env) = [session |-> session, ret |-> FALSE]

\* C37: get_coverage_stats reports tested_elements <= total_elements and a
\* coverage_percent between 0 and 100, and no screen has more tested labels
\* than elements.
C37_CoverageBounded ==
    LET stats == get_coverage_stats(site_map)
    IN /\ stats.tested_elements <= stats.total_elements
       /\ 0 <= stats.coverage_percent /\ stats.coverage_percent <= 1000
       /\ \A fp \in DOMAIN site_map.screens :
            Cardinality(site_map.screens[fp].tested_elements) <= Len(site_map.screens[fp].elements)

\* the screens with elements for which get_untested_elements returns the empty list
NothingUntested == {fp \in DOMAIN site_map.screens : site_map.screens[fp].elements # <<>> /\ get_untested_elements(site_map, fp) = <<>>}

\* C38: screens_fully_tested counts exactly the screens with elements for
\* which get_untested_elements returns the empty list; and when
\* get_next_screen_to_explore has returned None on a map with an element,
\* coverage_percent is 100 and screens_fully_tested is the number of screens
\* that have an element.
C38_FullyTestedAgree ==
    LET stats == get_coverage_stats(site_map)
    IN /\ stats.screens_fully_tested = Cardinality(NothingUntested)
       /\ last.op = "get_next_screen_to_explore" /\ last.ret = None /\ stats.total_elements > 0 =>
            /\ stats.coverage_percent = 1000
            /\ stats.screens_fully_tested = Cardinality({fp \in DOMAIN site_map.screens : site_map.screens[fp].elements # <<>>})

\* the fingerprints in the exploration queue
Queued == {site_map.exploration_queue[i] : i \in DOMAIN site_map.exploration_queue}

\* C40: every known screen with an untested element is in exploration_queue,
\* and a call of get_next_screen_to_explore that leaves the queue empty
\* returns None.
C40_UntestedAreQueued ==
    /\ \A fp \in DOMAIN site_map.screens : get_untested_elements(site_map, fp) # <<>> => fp \in Queued
    /\ last.op = "get_next_screen_to_explore" /\ site_map.exploration_queue = <<>> => last.ret = None

\* two screens, one of them with elements, all tested: the call evicted both
\* from the queue and returned None
C40_Witness ==
    /\ last.op = "get_next_screen_to_explore"
    /\ last.ret = None
    /\ site_map.exploration_queue = <<>>
    /\ Len(site_map.screen_keys) = 2
    /\ get_coverage_stats(site_map).total_elements > 0

\* what an element test without error leaves behind: one more transition,
\* from the starting screen, for the element tested, to the screen the click
\* led to, which is registered; and the browser is back on the starting screen
RecordsClick ==
    LET element == ElementUnderTest
        after_fp == click_outcome(app, browser, element).after_fp
        recorded == Last(site_map'.transitions)
    IN /\ Len(site_map'.transitions) = Len(site_map.transitions) + 1
       /\ recorded.from_screen = browser
       /\ recorded.element_label = element.label
       /\ recorded.to_screen = after_fp
       /\ recorded.result = IF after_fp # browser THEN "navigated" ELSE "no_change"
       /\ after_fp \in DOMAIN site_map'.screens
       /\ browser' = browser

default_threshold == Quotient(4, 5)

\* C33: no two elements stored on the same screen have bounding boxes whose
\* IoU is at least the threshold 0.8.
C33_StoredElementsDistinct ==
    \A fp \in DOMAIN site_map.screens :
        LET elements == site_map.screens[fp].elements
        IN \A i, j \in DOMAIN elements :
            i < j => ~ AtLeast(calculate_iou(elements[i].bounding_box.items, elements[j].bounding_box.items), default_threshold)

\* C34: while run_exploration(max_screens = N) is in its loop, a map holding
\* at most N screens never comes to hold more than N, and no element is tested
\* in an iteration that starts with N screens known.
C34_MaxScreensBound ==
    /\ [][bf_pc = "loop" /\ Len(site_map.screen_keys) <= bf_args.max_screens =>
            Len(site_map'.screen_keys) <= bf_args.max_screens]_vars
    /\ [][bf_pc = "loop" /\ Len(site_map.screen_keys) >= bf_args.max_screens => ~ TestsElement]_vars

\* C39: a load_from_disk that returns False leaves the map exactly as it
\* was when the call was made.
C39_FailedLoadKeepsMap ==
    last.op = "load_from_disk" /\ ~ last.ret => site_map = last.args[1]

====
